---- MODULE Spec2Model ----
(***************************************************************************)
(* Model of the AirAware + CleanMap frontend (frontend/src/App.jsx).       *)
(*                                                                         *)
(* Units.  The JavaScript code works on IEEE doubles; the model works on   *)
(* scaled integers:                                                        *)
(*   - a coordinate of the app or of a generator call is an integer number *)
(*     of half-thousandths of a degree (1/2000 degree): the coordinates    *)
(*     used are multiples of 1/16 degree, which are exact doubles, and the *)
(*     default location (33.749, -84.388), whose products with 1000 are    *)
(*     the exact doubles 33749 and -84388;                                 *)
(*   - a shape's centre is in micro-degrees;                               *)
(*   - a circle's radius is in millimetres, a circleMarker's in pixels;   *)
(*   - a fill opacity and a value of seededRandom are in millionths;       *)
(*   - a concentration reading is in tenths of the pollutant's unit.       *)
(* Math.sin and Math.cos are library functions; they are tabulated for     *)
(* the arguments the model's inputs lead to.                               *)
(***************************************************************************)
EXTENDS Integers, Sequences, FiniteSets, TLC

VARIABLES
    callArgs,   \* arguments of the latest createPollutantHeatMap call
    result,     \* what that call returned
    callCount,  \* number of generator calls made so far
    kept,       \* an earlier call (arguments and result) kept for comparison
    app,        \* the App component's state (useState values)
    rendered,   \* the last commit: the props of its PollutantOverlay element
                \* and whether the effect left a cleanup function, and the
                \* state values its event handlers closed over
    mapLayers,  \* the layers on the Leaflet map, in the order they were added
    requests,   \* the /api/pollutants requests in flight: their coordinates
    pending,    \* state changes since the last commit
    lastCommit, \* what the last commit did: the number of state changes it
                \* rendered and the effect functions of PollutantOverlay it ran
    loading,    \* the App's loading flag (useState)
    aqRequests, \* the /api/airquality requests in flight: their coordinates
    search,     \* the App's search state: searchQuery, searchResults,
                \* isSearching, showResults (useState values)
    debounce,   \* the debounce effect: the searchQuery it last ran with and
                \* the setTimeout timers not yet fired or cleared
    imports,    \* the handleCitySearch calls waiting at
                \* await import('./utils/api'): their queries
    searches,   \* the searchCity calls in flight: their queries
    lastSearch, \* the query of the most recently started searchCity call
    sinceInput, \* milliseconds since searchQuery last changed (capped)
    refreshTicks, \* number of times the 5-minute interval has fired
    fireRequests, \* the /api/fires requests in flight: the locations their
                \* bounds were computed from
    geolocation \* navigator.geolocation: whether it exists (supported) and
                \* the getCurrentPosition calls not yet answered
                \* (outstanding), the call made on mount included

genVars == <<callArgs, result, callCount, kept>>

fetchVars == <<loading, aqRequests>>

searchVars == <<search, debounce, imports, searches, lastSearch, sinceInput>>

appVars == <<app, rendered, mapLayers, requests, pending, lastCommit,
             loading, aqRequests, search, debounce, imports, searches,
             lastSearch, sinceInput, refreshTicks, fireRequests,
             geolocation>>

vars == <<callArgs, result, callCount, kept, app, rendered, mapLayers,
          requests, pending, lastCommit, loading, aqRequests, search,
          debounce, imports, searches, lastSearch, sinceInput,
          refreshTicks, fireRequests, geolocation>>

\* Most generator calls in one behaviour.
MaxCalls ==
    3

\* Most /api/pollutants requests in flight at once.
MaxInFlight ==
    2

\* Most state changes between two commits.
MaxBurst ==
    2

\* Most city searches begun and not yet answered at once.
MaxSearches ==
    1

\* Most getCurrentPosition calls unanswered at once.
MaxPositionCalls ==
    2

\* Most firings of the auto-refresh interval in one behaviour.
MaxRefreshes ==
    1

\* The delay of the debounce effect's setTimeout, in milliseconds.
DebounceMs ==
    500

\* The step by which time advances, in milliseconds.
TickMs ==
    250

Million ==
    10 ^ 6

\* Micro-degrees in one coordinate unit of 1/2000 degree.
MicroPerUnit ==
    Million \div 2000

Abs(n) ==
    IF n < 0 THEN -n ELSE n

Min(a, b) ==
    IF a <= b THEN a ELSE b

\* floor(a * m / 10^6) for a >= 0 and 0 <= m <= 10^6 without leaving 32 bits
\* (a up to 10^6).
ScaleDown(a, m) ==
    LET hi == m \div 1000
        lo == m % 1000
    IN  (a * hi + (a * lo) \div 1000) \div 1000

\* a * m / 10^6 truncated towards zero, for a signed factor m.
MulMicro(a, m) ==
    IF m < 0 THEN -ScaleDown(a, -m) ELSE ScaleDown(a, m)

(***************************************************************************)
(* Math.sin / Math.cos.  A row <<x, r, c, s>> gives, for the integer       *)
(* argument x = spotSeed + index,                                          *)
(*    r = floor(10^6 * frac(Math.sin(x) * 10000)),                         *)
(*    c = round(10^6 * Math.cos(2 * Math.PI * frac(Math.sin(x) * 10000))), *)
(*    s = round(10^6 * Math.sin(2 * Math.PI * frac(Math.sin(x) * 10000))). *)
(***************************************************************************)
SinTableRows ==
    {
    <<-50542, 424492, -889554, 456830>>, <<-50541, 952546, 955879, -293762>>, <<-50540, 696142, -331975, -943288>>,
    <<-50539, 712271, -234842, -972034>>, <<-50538, 348254, -578875, 815416>>, <<-50537, 842336, 548164, -836371>>,
    <<-50536, 714874, -218914, -975744>>, <<-50535, 630152, -683850, -729622>>, <<-50534, 749922, -487, -1000000>>,
    <<-50533, 2150, 999909, 13511>>, <<-50532, 15985, 994960, 100274>>, <<-50531, 22295, 990203, 139632>>,
    <<-50530, 90454, 842795, 538235>>, <<-50529, 263912, -87302, 996182>>, <<-50528, 336073, -514838, 857287>>,
    <<-50527, 911096, 848000, -529997>>, <<-50526, 996606, 999773, -21319>>, <<-50525, 679514, -428539, -903523>>,
    <<-50524, 749540, -2889, -999996>>, <<-50523, 207915, 261353, 965243>>, <<-50522, 356818, -621896, 783100>>,
    <<-50521, 946616, 944273, -329164>>, <<-50520, 185664, 393311, 919405>>, <<-50519, 347250, -573721, 819051>>,
    <<-50518, 826222, 460819, -887494>>, <<-50517, 131749, 676494, 736448>>, <<-50516, 973430, 986098, -166167>>,
    <<-50515, 578137, -881883, -471467>>, <<-50514, 725110, -155746, -987797>>, <<-50513, 654036, -567081, -823662>>,
    <<-50512, 474864, -987555, 157274>>, <<-50442, 74898, 891295, 453424>>, <<-50441, 184027, 402747, 915311>>,
    <<-50440, 623013, -715876, -698228>>, <<-50439, 298535, -300254, 953859>>, <<-50438, 171136, 475486, 879724>>,
    <<-50437, 833290, 499769, -866159>>, <<-50436, 794070, 273377, -961907>>, <<-50435, 77087, 884977, 465635>>,
    <<-50434, 543737, -962476, -271367>>, <<-50433, 934354, 916137, -400865>>, <<-50432, 315456, -399777, 916612>>,
    <<-50431, 965732, 976911, -213648>>, <<-50430, 163238, 518536, 855056>>, <<-50429, 920280, 877153, -480210>>,
    <<-50428, 538909, -970265, -242045>>, <<-50427, 665167, -508134, -861278>>, <<-50426, 999262, 999989, -4635>>,
    <<-50425, 699501, -311995, -950084>>, <<-50424, 164179, 513472, 858106>>, <<-50423, 525000, -987688, -156436>>,
    <<-50422, 558979, -932117, -362157>>, <<-50421, 621011, -724602, -689168>>, <<-50420, 77601, 883468, 468492>>,
    <<-50419, 853698, 606424, -795142>>, <<-50418, 736279, -86103, -996286>>, <<-50417, 923527, 886769, -462213>>,
    <<-50416, 29437, 982943, 183910>>, <<-50415, 12778, 996778, 80206>>, <<-50414, 934737, 917099, -398659>>,
    <<-50413, 189329, 372040, 928217>>, <<-50412, 922138, 882701, -469935>>, <<-50342, 965198, 976188, -216925>>,
    <<-50341, 640450, -635239, -772315>>, <<-50340, 726782, -145361, -989379>>, <<-50339, 687075, -385148, -922855>>,
    <<-50338, 613391, -756757, -653697>>, <<-50337, 855052, 613165, -789955>>, <<-50336, 277312, -170768, 985311>>,
    <<-50335, 763746, 86261, -996273>>, <<-50334, 739126, -68269, -997667>>, <<-50333, 435898, -919981, 391962>>,
    <<-50332, 455606, -961350, 275331>>, <<-50331, 265902, -99752, 995012>>, <<-50330, 929623, 903818, -427918>>,
    <<-50329, 931835, 909677, -415316>>, <<-50328, 608316, -777214, -629236>>, <<-50327, 874368, 704295, -709907>>,
    <<-50326, 944335, 939458, -342665>>, <<-50325, 396026, -794093, 607796>>, <<-50324, 924285, 888960, -457985>>,
    <<-50323, 508844, -998456, -55545>>, <<-50322, 201759, 298482, 954415>>, <<-50321, 777212, 170146, -985419>>,
    <<-50320, 64458, 919100, 394023>>, <<-50319, 429158, -902564, 430556>>, <<-50318, 225574, 152868, 988247>>,
    <<-50317, 677974, -437262, -899334>>, <<-50316, 5049, 999497, 31724>>, <<-50315, 299581, -306512, 951867>>,
    <<-50314, 510643, -997765, -66824>>, <<-50313, 643415, -620742, -784015>>, <<-50312, 303320, -328792, 944402>>,
    <<-33903, 987639, 996986, -77585>>, <<-33902, 590869, -841388, -540432>>, <<-33901, 84789, 861415, 507902>>,
    <<-33900, 825748, 458176, -888862>>, <<-33899, 373647, -701072, 713090>>, <<-33898, 909781, 843592, -536985>>,
    <<-33897, 357411, -624809, 780778>>, <<-33896, 28625, 983869, 178891>>, <<-33895, 341787, -545274, 838258>>,
    <<-33894, 892620, 780902, -624653>>, <<-33893, 156321, 555199, 831718>>, <<-33892, 325903, -459042, 888414>>,
    <<-33891, 825203, 455128, -890426>>, <<-33890, 32183, 979624, 200838>>, <<-33889, 321180, -432481, 901643>>,
    <<-33888, 685627, -393526, -919313>>, <<-33887, 449664, -950402, 311023>>, <<-33886, 567783, -910669, -413137>>,
    <<-33885, 304395, -335162, 942160>>, <<-33884, 350736, -591524, 806287>>, <<-33883, 548893, -953182, -302396>>,
    <<-33882, 64178, 919792, 392405>>, <<-33881, 696721, -328544, -944489>>, <<-33880, 965095, 976047, -217560>>,
    <<-33879, 217021, 205729, 978609>>, <<-33878, 37631, 972177, 234247>>, <<-33877, 448953, -949004, 315265>>,
    <<-33876, 536397, -973964, -226703>>, <<-33875, 289529, -245826, 969314>>, <<-33874, 146192, 606969, 794725>>,
    <<-33873, 731668, -114925, -993374>>, <<-33872, 702121, -296314, -955091>>, <<-33871, 55226, 940398, 340075>>,
    <<-33870, 743721, -39438, -999222>>, <<-33869, 751327, 8339, -999965>>, <<-33868, 234033, 100155, 994972>>,
    <<-33867, 906335, 831768, -555123>>, <<-33866, 16938, 994342, 106230>>, <<-33865, 691593, -358794, -933417>>,
    <<-33803, 198494, 317999, 948091>>, <<-33802, 273566, -147531, 989057>>, <<-33801, 659612, -537883, -843019>>,
    <<-33800, 595826, -824150, -566372>>, <<-33799, 495276, -999560, 29674>>, <<-33798, 225759, 151718, 988424>>,
    <<-33797, 523971, -988679, -150047>>, <<-33796, 658021, -546281, -837602>>, <<-33795, 11505, 997388, 72231>>,
    <<-33794, 604385, -792517, -609849>>, <<-33793, 364430, -658622, 752474>>, <<-33792, 7866, 998779, 49406>>,
    <<-33791, 862547, 649676, -760211>>, <<-33790, 145846, 608697, 793402>>, <<-33789, 444310, -939404, 342812>>,
    <<-33788, 783356, 208053, -978118>>, <<-33787, 510632, -997769, -66758>>, <<-33786, 470633, -983025, 183471>>,
    <<-33785, 631945, -675588, -737280>>, <<-33784, 272463, -140675, 990056>>, <<-33783, 98741, 813638, 581372>>,
    <<-33782, 399241, -806205, 591636>>, <<-33781, 945111, 941118, -338078>>, <<-33780, 122906, 716346, 697746>>,
    <<-33779, 383398, -743419, 668826>>, <<-33778, 938314, 925826, -377951>>, <<-33777, 567881, -910414, -413699>>,
    <<-33776, 517417, -994018, -109220>>, <<-33775, 896046, 794169, -607697>>, <<-33774, 120678, 726046, 687646>>,
    <<-33773, 153013, 572364, 820000>>, <<-33772, 308553, -359661, 933083>>, <<-33771, 470177, -982496, 186284>>,
    <<-33770, 44051, 961940, 273261>>, <<-33769, 651134, -582003, -813187>>, <<-33768, 183513, 405704, 914005>>,
    <<-33767, 367684, -673867, 738852>>, <<-33766, 505285, -999449, -33206>>, <<-33765, 1882, 999930, 11827>>,
    <<-33703, 876755, 714862, -699266>>, <<-33702, 910552, 846183, -532893>>, <<-33701, 893742, 785289, -619130>>,
    <<-33700, 897244, 798720, -601703>>, <<-33699, 972654, 985276, -170973>>, <<-33698, 913924, 857281, -514848>>,
    <<-33697, 386988, -758313, 651891>>, <<-33696, 889434, 768244, -640157>>, <<-33695, 693041, -350292, -936640>>,
    <<-33694, 555451, -939917, -341404>>, <<-33693, 645533, -610256, -792204>>, <<-33692, 542192, -965066, -262006>>,
    <<-33691, 894244, 787237, -616651>>, <<-33690, 930016, 904872, -425684>>, <<-33689, 83358, 865946, 500138>>,
    <<-33688, 274181, -151355, 988479>>, <<-33687, 676901, -443313, -896367>>, <<-33686, 721536, -177891, -984050>>,
    <<-33685, 799778, 307692, -951486>>, <<-33684, 945653, 942264, -334871>>, <<-33683, 723479, -165861, -986149>>,
    <<-33682, 610153, -769899, -638165>>, <<-33681, 614084, -753904, -656985>>, <<-33680, 43341, 963148, 268971>>,
    <<-33679, 777179, 169943, -985454>>, <<-33678, 856232, 619010, -785383>>, <<-33677, 183236, 407294, 913297>>,
    <<-33676, 95517, 825249, 564769>>, <<-33675, 371603, -691858, 722033>>, <<-33674, 988865, 997554, -69905>>,
    <<-33673, 96952, 820122, 572189>>, <<-33672, 467779, -979578, 201064>>, <<-33671, 118550, 735175, 677878>>,
    <<-33670, 144385, 615954, 787782>>, <<-33669, 922381, 883417, -468587>>, <<-33668, 139905, 637882, 770134>>,
    <<-33667, 727204, -142741, -989760>>, <<-33666, 564538, -918902, -394487>>, <<-33665, 819370, 422194, -906505>>,
    <<99, 931658, 909214, -416330>>, <<100, 343588, -554728, 832032>>, <<101, 257871, -49440, 998777>>,
    <<102, 267913, -112317, 993672>>, <<103, 886314, 755547, -655094>>, <<104, 775968, 162441, -986718>>,
    <<105, 647164, -602104, -798418>>, <<106, 574999, -891009, -453986>>, <<107, 817445, 411203, -911544>>,
    <<108, 185054, 396835, 917890>>, <<109, 426066, -894028, 448010>>, <<110, 573219, -896031, -443992>>,
    <<111, 485513, -995861, 90893>>, <<112, 43956, 962103, 272688>>, <<113, 180941, 420422, 907329>>,
    <<114, 803886, 332149, -943227>>, <<115, 353340, -604634, 796504>>, <<116, 613933, -754525, -656271>>,
    <<117, 20590, 991643, 129014>>, <<118, 478309, -990728, 135864>>, <<119, 958985, 966978, -254858>>,
    <<120, 111842, 763084, 646299>>, <<121, 152247, 576304, 817235>>, <<122, 131538, 677466, 735554>>,
    <<123, 965093, 976044, -217572>>, <<124, 130131, 683946, 729532>>, <<125, 595408, -825637, -564202>>,
    <<126, 908256, 838408, -545043>>, <<127, 300672, -313032, 949742>>, <<128, 377105, -716397, 697693>>,
    <<129, 266079, -100859, 994901>>, <<130, 940498, 930924, -365213>>, <<131, 966128, 977439, -211217>>,
    <<132, 835871, 513747, -857942>>, <<133, 657562, -548696, -836022>>, <<134, 248164, 11532, 999934>>,
    <<135, 686861, -386389, -922336>>, <<199, 11639, 997327, 73067>>, <<200, 27027, 985615, 169006>>,
    <<201, 97492, 818176, 574968>>, <<202, 184068, 402512, 915415>>, <<203, 97001, 819946, 572441>>,
    <<204, 203593, 287469, 957790>>, <<205, 24922, 987765, 155952>>, <<206, 580968, -873358, -487079>>,
    <<207, 949724, 950520, -310662>>, <<208, 679301, -429744, -902951>>, <<209, 666417, -501354, -865242>>,
    <<210, 185183, 396090, 918212>>, <<211, 521461, -990922, -134438>>, <<212, 529062, -983375, -181589>>,
    <<213, 293801, -271754, 962367>>, <<214, 994513, 999406, -34464>>, <<215, 456219, -962403, 271624>>,
    <<216, 584883, -861115, -508411>>, <<217, 183905, 403448, 915003>>, <<218, 754726, 29694, -999559>>,
    <<219, 852585, 600848, -799364>>, <<220, 987124, 996730, -80809>>, <<221, 387978, -762356, 647158>>,
    <<222, 508382, -998613, -52642>>, <<223, 534852, -976118, -217240>>, <<224, 790026, 248850, -968542>>,
    <<225, 51219, 948660, 316298>>, <<226, 561828, -925486, -378782>>, <<227, 585970, -857621, -514282>>,
    <<228, 230624, 121437, 992599>>, <<229, 623697, -712871, -701296>>, <<230, 357959, -627493, 778622>>,
    <<231, 158102, 545855, 837879>>, <<232, 232767, 108062, 994144>>, <<233, 392818, -781678, 623682>>,
    <<234, 166912, 498664, 866795>>, <<235, 866409, 667931, -744223>>, <<236, 679105, -430857, -902420>>,
    <<237, 421302, -880219, 474568>>, <<238, 238868, 69886, 997555>>, <<239, 906812, 833429, -552627>>,
    <<240, 451549, -954019, 299745>>, <<241, 617132, -741182, -671304>>, <<242, 880924, 732934, -680300>>,
    <<243, 906511, 832381, -554204>>, <<244, 637006, -651802, -758389>>, <<245, 874367, 704292, -709910>>,
    <<246, 599996, -809031, -587766>>, <<247, 71855, 899803, 436296>>, <<248, 521192, -991148, -132762>>,
    <<249, 368065, -675637, 737235>>, <<250, 719804, -188587, -982056>>, <<251, 61397, 926509, 376272>>,
    <<252, 122110, 719829, 694151>>, <<253, 237286, 79795, 996811>>, <<254, 988980, 997604, -69181>>,
    <<255, 83650, 865026, 501726>>, <<256, 919658, 875272, -483631>>, <<257, 428251, -900096, 435692>>,
    <<258, 356268, -619184, 785246>>, <<259, 931839, 909688, -415293>>, <<299, 232783, 107962, 994155>>,
    <<300, 441600, -933432, 358753>>, <<301, 359504, -635020, 772496>>, <<302, 528310, -984221, -176943>>,
    <<303, 325048, -454262, 890868>>, <<304, 68037, 910008, 414592>>, <<305, 960581, 969485, -245150>>,
    <<306, 382865, -741173, 671314>>, <<307, 646357, -606145, -795354>>, <<308, 30360, 981861, 189603>>,
    <<309, 13749, 996271, 86284>>, <<310, 876886, 715439, -698676>>, <<311, 717854, -200605, -979672>>,
    <<312, 85242, 859966, 510351>>, <<313, 905097, 827427, -561574>>, <<314, 70939, 902297, 431114>>,
    <<315, 332645, -496253, 868178>>, <<316, 873480, 700324, -713825>>, <<317, 397884, -801135, 598484>>,
    <<318, 387940, -762199, 647342>>, <<319, 250043, -276, 1000000>>, <<320, 445719, -942402, 334483>>,
    <<321, 82654, 868149, 496303>>, <<322, 122598, 717695, 696358>>, <<323, 15338, 995359, 96227>>,
    <<324, 347805, -576574, 817045>>, <<325, 637265, -650568, -759448>>, <<326, 886657, 756959, -653462>>,
    <<327, 348053, -577845, 816146>>, <<328, 847343, 574198, -818716>>, <<329, 389491, -768473, 639882>>,
    <<330, 183707, 404585, 914500>>, <<331, 88518, 849281, 527942>>, <<332, 956581, 963018, -269437>>,
    <<333, 788338, 238567, -971126>>, <<334, 721491, -178171, -984000>>, <<335, 329489, -478940, 877848>>,
    <<336, 474057, -986744, 162282>>, <<337, 928487, 900740, -434359>>, <<338, 108031, 778337, 627847>>,
    <<339, 255514, -34644, 999400>>, <<340, 107401, 780817, 624760>>, <<341, 32333, 979434, 201765>>,
    <<342, 396822, -797121, 603819>>, <<343, 16448, 994664, 103163>>, <<344, 96604, 821370, 570395>>,
    <<345, 41826, 965666, 259788>>, <<346, 459504, -967805, 251702>>, <<347, 626321, -701210, -712955>>,
    <<348, 638725, -643575, -765383>>, <<349, 555582, -939635, -342177>>, <<350, 671749, -472092, -881550>>,
    <<351, 172087, 470222, 882548>>, <<352, 498506, -999956, 9382>>, <<353, 99708, 810091, 586305>>,
    <<354, 546973, -956760, -290878>>, <<355, 698556, -317630, -948215>>, <<356, 127285, 696882, 717186>>,
    <<357, 151180, 581768, 813355>>, <<358, 98346, 815078, 579351>>, <<359, 221986, 175108, 984549>>,
    <<421, 812877, 384873, -922970>>, <<422, 355864, -617189, 786815>>, <<423, 144124, 617244, 786772>>,
    <<424, 548686, -953575, -301156>>, <<425, 902277, 817347, -576146>>, <<426, 546624, -957396, -288779>>,
    <<427, 57944, 934452, 356089>>, <<428, 941486, 933174, -359426>>, <<429, 410837, -847135, 531378>>,
    <<430, 538496, -970889, -239528>>, <<431, 675144, -453183, -891418>>, <<432, 807755, 354979, -934874>>,
    <<433, 474021, -986708, 162503>>, <<434, 396769, -796921, 604083>>, <<435, 919810, 875732, -482798>>,
    <<436, 645812, -608863, -793275>>, <<437, 425902, -893568, 448929>>, <<438, 280171, -188437, 982085>>,
    <<439, 301791, -319701, 947518>>, <<440, 52932, 945201, 326488>>, <<441, 700129, -308244, -951307>>,
    <<442, 6615, 999136, 41551>>, <<443, 715718, -213737, -976891>>, <<444, 152156, 576771, 816906>>,
    <<445, 168436, 490336, 871533>>, <<446, 424628, -889945, 456068>>, <<447, 849530, 585395, -810748>>,
    <<448, 725721, -151955, -988387>>, <<449, 227616, 140178, 990126>>, <<450, 162749, 521161, 853459>>,
    <<451, 176939, 443098, 896473>>, <<452, 201491, 300093, 953910>>, <<453, 65686, 916033, 401103>>,
    <<454, 56333, 938009, 346610>>, <<455, 396468, -795776, 605591>>, <<456, 473241, -985899, 167340>>,
    <<457, 701468, -300228, -953867>>, <<458, 349486, -585174, 810908>>, <<459, 509457, -998235, -59388>>,
    <<221099, 257358, -46218, 998931>>, <<221100, 451026, -953030, 302876>>, <<221101, 51832, 947436, 319947>>,
    <<221102, 122065, 720022, 693951>>, <<221103, 19734, 992322, 123679>>, <<221104, 994393, 999380, -35222>>,
    <<221105, 283283, -207603, 978213>>, <<221106, 57092, 936345, 351080>>, <<221107, 595038, -826944, -562284>>,
    <<221108, 893983, 786224, -617942>>, <<221109, 184931, 397542, 917584>>, <<221110, 56066, 938590, 345035>>,
    <<221111, 829536, 479201, -877705>>, <<221112, 996083, 999697, -24604>>, <<221113, 143882, 618440, 785832>>,
    <<221114, 742029, -50060, -998746>>, <<221115, 504815, -999542, -30253>>, <<221116, 707540, -263626, -964625>>,
    <<221117, 19715, 992337, 123562>>, <<221118, 862294, 648468, -761242>>, <<221119, 451237, -953430, 301614>>,
    <<221120, 885467, 752049, -659107>>, <<221121, 229178, 130455, 991454>>, <<221122, 475532, -988207, 153126>>,
    <<221123, 513249, -996537, -83154>>, <<221124, 463770, -974203, 225673>>, <<221125, 60842, 927815, 373040>>,
    <<221126, 181909, 414893, 909870>>, <<221127, 811538, 377092, -926176>>, <<221128, 17676, 993838, 110838>>,
    <<221129, 990427, 998192, -60109>>, <<221130, 631159, -679216, -733938>>, <<221131, 245443, 28627, 999590>>,
    <<221132, 848596, 580629, -814168>>, <<221133, 637066, -651515, -758636>>, <<221134, 558121, -934057, -357123>>,
    <<221135, 459416, -967665, 252237>>, <<221199, 457665, -964832, 262868>>, <<221200, 774454, 153048, -988219>>,
    <<221201, 69735, 905533, 424275>>, <<221202, 510742, -997723, -67447>>, <<221203, 485183, -995670, 92962>>,
    <<221204, 673253, -463739, -885972>>, <<221205, 425464, -892327, 451390>>, <<221206, 357723, -626339, 779551>>,
    <<221207, 711861, -237347, -971425>>, <<221208, 36919, 973214, 229900>>, <<221209, 253106, -19516, 999810>>,
    <<221210, 815904, 402358, -915482>>, <<221211, 864670, 659759, -751477>>, <<221212, 835652, 512564, -858649>>,
    <<221213, 403496, -821734, 569872>>, <<221214, 396944, -797583, 603210>>, <<221215, 76557, 886520, 462690>>,
    <<221216, 522246, -990247, -139324>>, <<221217, 71635, 900405, 435053>>, <<221218, 889411, 768149, -640271>>,
    <<221219, 639801, -638383, -769719>>, <<221220, 633642, -667687, -744442>>, <<221221, 365590, -664092, 747651>>,
    <<221222, 137124, 651240, 758872>>, <<221223, 643695, -619363, -785105>>, <<221224, 542568, -964443, -264290>>,
    <<221225, 420712, -878455, 477824>>, <<221226, 942532, 935517, -353282>>, <<221227, 26758, 985900, 167338>>,
    <<221228, 598282, -815313, -579020>>, <<221229, 775774, 161241, -986915>>, <<221230, 793458, 269680, -962950>>,
    <<221231, 186799, 386746, 922186>>, <<221232, 922286, 883138, -469114>>, <<221233, 39719, 969020, 246981>>,
    <<221234, 98655, 813954, 580930>>, <<221235, 527920, -984652, -174530>>, <<221299, 415681, -862915, 505349>>,
    <<221300, 522590, -989944, -141462>>, <<221301, 967617, 979372, -202067>>, <<221302, 730193, -124127, -992266>>,
    <<221303, 280599, -191079, 981575>>, <<221304, 600894, -805702, -592321>>, <<221305, 479009, -991315, 131506>>,
    <<221306, 893296, 783550, -621328>>, <<221307, 836148, 515238, -857047>>, <<221308, 894848, 789572, -613659>>,
    <<221309, 758808, 55316, -998469>>, <<221310, 394005, -786311, 617831>>, <<221311, 298821, -301967, 953318>>,
    <<221312, 575481, -889628, -456685>>, <<221313, 451048, -953071, 302746>>, <<221314, 783736, 210388, -977618>>,
    <<221315, 192591, 352938, 935647>>, <<221316, 946334, 943688, -330836>>, <<221317, 16248, 994793, 101917>>,
    <<221318, 468478, -980451, 196765>>, <<221319, 522118, -990359, -138527>>, <<221320, 63042, 922570, 385829>>,
    <<221321, 720494, -184326, -982865>>, <<221322, 151974, 577704, 816246>>, <<221323, 451333, -953612, 301039>>,
    <<221324, 775917, 162123, -986770>>, <<221325, 346098, -567781, 823180>>, <<221326, 502204, -999904, -13852>>,
    <<221327, 3187, 999799, 20026>>, <<221328, 912576, 852891, -522089>>, <<221329, 781697, 197848, -980233>>,
    <<221330, 243998, 37702, 999289>>, <<221331, 337616, -523122, 852258>>, <<221332, 858504, 630155, -776470>>,
    <<221333, 84172, 863378, 504558>>, <<221334, 988896, 997567, -69710>>, <<221335, 972295, 984887, -173196>>,
    <<925099, 763981, 87738, -996144>>, <<925100, 895296, 791296, -611433>>, <<925101, 831458, 489765, -871854>>,
    <<925102, 887781, 761552, -648104>>, <<925103, 477738, -990234, 139416>>, <<925104, 605036, -790014, -613089>>,
    <<925105, 286346, -226391, 974036>>, <<925106, 732261, -111224, -993795>>, <<925107, 964104, 974674, -223631>>,
    <<925108, 516726, -994482, -104903>>, <<925109, 412858, -853814, 520577>>, <<925110, 946360, 943742, -330683>>,
    <<925111, 740082, -62271, -998059>>, <<925112, 898660, 804042, -594573>>, <<925113, 390326, -771819, 635843>>,
    <<925114, 627130, -697578, -716509>>, <<925115, 7921, 998762, 49752>>, <<925116, 781382, 195909, -980622>>,
    <<925117, 409992, -844303, 535867>>, <<925118, 399421, -806876, 590720>>, <<925119, 535945, -974603, -223938>>,
    <<925120, 968911, 980983, -194093>>, <<925121, 511435, -997420, -71788>>, <<925122, 747100, -18218, -999834>>,
    <<925123, 23068, 989514, 144440>>, <<925124, 35551, 975155, 221523>>, <<925125, 275068, -156862, 987620>>,
    <<925126, 736001, -87843, -996134>>, <<925127, 251282, -8059, 999968>>, <<925128, 495063, -999519, 31010>>,
    <<925129, 245172, 30330, 999540>>, <<925130, 754137, 25996, -999662>>, <<925131, 763768, 86401, -996260>>,
    <<925132, 359032, -632727, 774375>>, <<925133, 947301, 945680, -325100>>, <<925134, 364926, -660965, 750417>>,
    <<925135, 935078, 917951, -396694>>, <<925199, 258980, -56394, 998409>>, <<925200, 40274, 968154, 250357>>,
    <<925201, 709611, -251052, -967973>>, <<925202, 351938, -597597, 801797>>, <<925203, 421462, -880696, 473681>>,
    <<925204, 674714, -455588, -890191>>, <<925205, 490763, -998316, 58004>>, <<925206, 515311, -995376, -96059>>,
    <<925207, 69092, 907239, 420616>>, <<925208, 769190, 120289, -992739>>, <<925209, 452620, -956016, 293316>>,
    <<925210, 137650, 648731, 761018>>, <<925211, 53030, 945001, 327069>>, <<925212, 891506, 776511, -630103>>,
    <<925213, 608368, -777005, -629494>>, <<925214, 640721, -633927, -773393>>, <<925215, 180241, 424405, 905472>>,
    <<925216, 785590, 221762, -975101>>, <<925217, 280022, -187521, 982261>>, <<925218, 153680, 568920, 822393>>,
    <<925219, 533489, -977944, -208869>>, <<925220, 768595, 116574, -993182>>, <<925221, 272535, -141122, 989992>>,
    <<925222, 772780, 142644, -989774>>, <<925223, 526627, -986037, -166527>>, <<925224, 830845, 486400, -873736>>,
    <<925225, 552416, -946255, -323421>>, <<925226, 950551, 952122, -305717>>, <<925227, 357117, -623365, 781931>>,
    <<925228, 924253, 888867, -458164>>, <<925229, 996304, 999730, -23217>>, <<925230, 667958, -492954, -870056>>,
    <<925231, 322132, -437862, 899042>>, <<925232, 307747, -354929, 934893>>, <<925233, 814724, 395560, -918440>>,
    <<925234, 636055, -656324, -754479>>, <<925235, 484382, -995190, 97967>>, <<925299, 189888, 368777, 929518>>,
    <<925300, 899319, 806498, -591237>>, <<925301, 595848, -824072, -566486>>, <<925302, 52631, 945817, 324700>>,
    <<925303, 277652, -172872, 984944>>, <<925304, 992769, 998968, -45414>>, <<925305, 23611, 989016, 147810>>,
    <<925306, 127878, 694204, 719778>>, <<925307, 54236, 942494, 334223>>, <<925308, 447812, -946720, 322059>>,
    <<925309, 251480, -9304, 999957>>, <<925310, 536779, -973417, -229039>>, <<925311, 655363, -560192, -828363>>,
    <<925312, 813022, 385717, -922617>>, <<925313, 616036, -745790, -666181>>, <<925314, 898600, 803817, -594876>>,
    <<925315, 418711, -872379, 488831>>, <<925316, 717800, -200937, -979604>>, <<925317, 28975, 983473, 181056>>,
    <<925318, 778737, 179583, -983743>>, <<925319, 283249, -207396, 978257>>, <<925320, 255730, -36000, 999352>>,
    <<925321, 958607, 966370, -257157>>, <<925322, 903982, 823469, -567361>>, <<925323, 594734, -828018, -560701>>,
    <<925324, 382755, -740711, 671823>>, <<925325, 402755, -819072, 573691>>, <<925326, 77882, 882640, 470050>>,
    <<925327, 306838, -349583, 936905>>, <<925328, 402883, -819532, 573034>>, <<925329, 95650, 824775, 565461>>,
    <<925330, 281629, -197428, 980317>>, <<925331, 255891, -37006, 999315>>, <<925332, 375253, -708231, 705981>>,
    <<925333, 530622, -981546, -191224>>, <<925334, 412947, -854105, 520100>>, <<925335, 348956, -582467, 812854>>
    }

\* x - Math.floor(x) for x = Math.sin(arg) * 10000, in millionths.
MathSinFrac ==
    [x \in {row[1] : row \in SinTableRows} |->
        (CHOOSE row \in SinTableRows : row[1] = x)[2]]

\* Math.cos(u * 2 * Math.PI), in millionths, for u in millionths of a turn.
MathCos ==
    [u \in {row[2] : row \in SinTableRows} |->
        (CHOOSE row \in SinTableRows : row[2] = u)[3]]

\* Math.sin(u * 2 * Math.PI), in millionths, for u in millionths of a turn.
MathSin ==
    [u \in {row[2] : row \in SinTableRows} |->
        (CHOOSE row \in SinTableRows : row[2] = u)[4]]

(***************************************************************************)
(* createPollutantHeatMap                                                  *)
(***************************************************************************)

\* activeLayer.charCodeAt(0) for the layer names the model uses.
charCodeAt0 ==
    [pm25 |-> 112, pm10 |-> 112, no2 |-> 110, o3 |-> 111, so2 |-> 115,
     co |-> 99, xenon |-> 120, aqi |-> 97]

colors ==
    [pm25 |-> "#ff6b6b", pm10 |-> "#ffa726", no2 |-> "#42a5f5",
     o3 |-> "#66bb6a", so2 |-> "#ab47bc", co |-> "#8d6e63"]

getPollutantColor(layer) ==
    IF layer \in DOMAIN colors THEN colors[layer] ELSE "#778da9"

\* 0.05 degrees, in micro-degrees.
baseRadius ==
    50000

\* Metres in one degree (baseRadius * 111000).
MetresPerDegree ==
    111000

thresholds ==
    [pm25 |-> [low |-> 12, medium |-> 35, high |-> 55],
     no2  |-> [low |-> 40, medium |-> 80, high |-> 180],
     o3   |-> [low |-> 100, medium |-> 160, high |-> 240],
     so2  |-> [low |-> 20, medium |-> 80, high |-> 250],
     co   |-> [low |-> 4, medium |-> 9, high |-> 15]]

\* thresholds[activeLayer] || thresholds.pm25
thresholdOf(activeLayer) ==
    IF activeLayer \in DOMAIN thresholds
    THEN thresholds[activeLayer]
    ELSE thresholds.pm25

\* pollutantData[activeLayer] || 0, in tenths of a unit.
baseValueOf(pollutantData, activeLayer) ==
    IF activeLayer \in DOMAIN pollutantData.readings
    THEN pollutantData.readings[activeLayer]
    ELSE 0

\* Math.floor(c * 1000) for a coordinate c given in units of 1/2000 degree.
FloorTimes1000(c) ==
    c \div 2

spotSeedOf(lat, lon, activeLayer) ==
    FloorTimes1000(lat) + FloorTimes1000(lon) + charCodeAt0[activeLayer]

\* x = Math.sin(spotSeed + index) * 10000; x - Math.floor(x)
seededRandom(spotSeed, index) ==
    MathSinFrac[spotSeed + index]

\* The top tier starting at 9 instead of 8.
spotRangeTopShifted(baseValue, threshold) ==
    IF baseValue <= threshold.low * 10
    THEN [tier |-> 0, base |-> 0, span |-> 3]
    ELSE IF baseValue <= threshold.medium * 10
    THEN [tier |-> 1, base |-> 3, span |-> 4]
    ELSE IF baseValue <= threshold.high * 10
    THEN [tier |-> 2, base |-> 6, span |-> 4]
    ELSE [tier |-> 3, base |-> 9, span |-> 5]

\* The first comparison strict: a value equal to low leaves the lowest tier.
spotRangeStrict(baseValue, threshold) ==
    IF baseValue < threshold.low * 10
    THEN [tier |-> 0, base |-> 0, span |-> 3]
    ELSE IF baseValue <= threshold.medium * 10
    THEN [tier |-> 1, base |-> 3, span |-> 4]
    ELSE IF baseValue <= threshold.high * 10
    THEN [tier |-> 2, base |-> 6, span |-> 4]
    ELSE [tier |-> 3, base |-> 8, span |-> 5]

\* The third tier starting at 2 instead of 6.
spotRangeDip(baseValue, threshold) ==
    IF baseValue <= threshold.low * 10
    THEN [tier |-> 0, base |-> 0, span |-> 3]
    ELSE IF baseValue <= threshold.medium * 10
    THEN [tier |-> 1, base |-> 3, span |-> 4]
    ELSE IF baseValue <= threshold.high * 10
    THEN [tier |-> 2, base |-> 2, span |-> 4]
    ELSE [tier |-> 3, base |-> 8, span |-> 5]

\* The branch of the numSpots chain the value takes: the index of the draw,
\* the constant added to it and the factor the draw is multiplied by.
spotRange(baseValue, threshold) ==
    IF baseValue <= threshold.low * 10
    THEN [tier |-> 0, base |-> 0, span |-> 3]
    ELSE IF baseValue <= threshold.medium * 10
    THEN [tier |-> 1, base |-> 3, span |-> 4]
    ELSE IF baseValue <= threshold.high * 10
    THEN [tier |-> 2, base |-> 6, span |-> 4]
    ELSE [tier |-> 3, base |-> 8, span |-> 5]

\* A count drawn with the value, not with the tier, as the index.
numSpotsOfByValue(baseValue, threshold, spotSeed) ==
    LET range == spotRange(baseValue, threshold)
    IN  range.base
          + (seededRandom(spotSeed, baseValue % 4) * range.span) \div Million

numSpotsOf(baseValue, threshold, spotSeed) ==
    LET range == spotRange(baseValue, threshold)
    IN  range.base
          + (seededRandom(spotSeed, range.tier) * range.span) \div Million

\* The distance drawn over the whole base radius.
spotDistanceFull(spotSeed, i) ==
    ScaleDown(baseRadius, seededRandom(spotSeed, i + 100))

\* seededRandom(i + 100) * baseRadius * 0.8, in micro-degrees.
spotDistance(spotSeed, i) ==
    (ScaleDown(baseRadius, seededRandom(spotSeed, i + 100)) * 8) \div 10

\* [spotLat, spotLon] in micro-degrees; lat, lon in units of 1/2000 degree.
spotCenter(lat, lon, spotSeed, i) ==
    LET angle    == seededRandom(spotSeed, i)
        distance == spotDistance(spotSeed, i)
    IN  [lat |-> lat * MicroPerUnit + MulMicro(distance, MathCos[angle]),
         lng |-> lon * MicroPerUnit + MulMicro(distance, MathSin[angle])]

\* (0.002 + seededRandom(i + 200) * 0.008) * 111000, in millimetres (the sum
\* in hundredths of a micro-degree, 1.11 mm each).
spotRadius(spotSeed, i) ==
    ((200000 + ScaleDown(800000, seededRandom(spotSeed, i + 200)))
        * (MetresPerDegree \div 1000)) \div 100

\* Math.max in place of Math.min.
intensityOfMax(baseValue, threshold) ==
    IF Million >= (baseValue * 100000) \div threshold.high
    THEN Million
    ELSE (baseValue * 100000) \div threshold.high

\* Math.min(1, baseValue / threshold.high), in millionths.
intensityOf(baseValue, threshold) ==
    Min(Million, (baseValue * 100000) \div threshold.high)

\* 0.4 + intensity * 0.5, in millionths.
spotOpacity(baseValue, threshold) ==
    400000 + (intensityOf(baseValue, threshold) \div 2)

\* The centre given as [lon, lat].
baseCircleSwapped(lat, lon, activeLayer) ==
    [shape       |-> "circle",
     latlng      |-> [lat |-> lon * MicroPerUnit,
                      lng |-> lat * MicroPerUnit],
     radius      |-> (baseRadius \div 1000) * MetresPerDegree,
     color       |-> getPollutantColor(activeLayer),
     fillColor   |-> getPollutantColor(activeLayer),
     fillOpacity |-> 300000,
     weight      |-> 2,
     className   |-> <<"pollutant-base", activeLayer>>]

baseCircleOf(lat, lon, activeLayer) ==
    [shape       |-> "circle",
     latlng      |-> [lat |-> lat * MicroPerUnit,
                      lng |-> lon * MicroPerUnit],
     radius      |-> (baseRadius \div 1000) * MetresPerDegree,
     color       |-> getPollutantColor(activeLayer),
     fillColor   |-> getPollutantColor(activeLayer),
     fillOpacity |-> 300000,
     weight      |-> 2,
     className   |-> <<"pollutant-base", activeLayer>>]

\* The hotspots drawn in the fallback colour instead of baseColor.
spotOfFallbackColor(lat, lon, pollutantData, activeLayer, i) ==
    LET spotSeed == spotSeedOf(lat, lon, activeLayer) IN
    [shape       |-> "circle",
     latlng      |-> spotCenter(lat, lon, spotSeed, i),
     radius      |-> spotRadius(spotSeed, i),
     color       |-> "#778da9",
     fillColor   |-> "#778da9",
     fillOpacity |-> spotOpacity(baseValueOf(pollutantData, activeLayer),
                                 thresholdOf(activeLayer)),
     weight      |-> 1,
     className   |-> <<"pollutant-spot", activeLayer>>]

spotOf(lat, lon, pollutantData, activeLayer, i) ==
    LET spotSeed == spotSeedOf(lat, lon, activeLayer) IN
    [shape       |-> "circle",
     latlng      |-> spotCenter(lat, lon, spotSeed, i),
     radius      |-> spotRadius(spotSeed, i),
     color       |-> getPollutantColor(activeLayer),
     fillColor   |-> getPollutantColor(activeLayer),
     fillOpacity |-> spotOpacity(baseValueOf(pollutantData, activeLayer),
                                 thresholdOf(activeLayer)),
     weight      |-> 1,
     className   |-> <<"pollutant-spot", activeLayer>>]

centerMarkerOf(lat, lon, activeLayer) ==
    [shape       |-> "circleMarker",
     latlng      |-> [lat |-> lat * MicroPerUnit,
                      lng |-> lon * MicroPerUnit],
     radius      |-> 8,
     color       |-> "#ffffff",
     fillColor   |-> "#ffffff",
     fillOpacity |-> 900000,
     weight      |-> 2,
     className   |-> <<"pollutant-center", activeLayer>>]

\* The value returned: null, or the array of layers.
createPollutantHeatMap(lat, lon, pollutantData, activeLayer) ==
    IF pollutantData.isNull
    THEN [returned |-> "null", overlays |-> <<>>]
    ELSE
        LET numSpots == numSpotsOf(baseValueOf(pollutantData, activeLayer),
                                   thresholdOf(activeLayer),
                                   spotSeedOf(lat, lon, activeLayer))
        IN  [returned |-> "array",
             overlays |->
                 <<baseCircleOf(lat, lon, activeLayer)>>
                 \o [k \in 1..numSpots |->
                        spotOf(lat, lon, pollutantData, activeLayer, k - 1)]
                 \o <<centerMarkerOf(lat, lon, activeLayer)>>]

(***************************************************************************)
(* Inputs of the generator                                                 *)
(***************************************************************************)

\* Anchors <<lat, lon>> in units of 1/2000 degree: (40, -74), (0, 0),
\* (0.5625, -0.4375), and two outside the valid ranges: (999, -74), (40, 181).
Anchors ==
    {<<80000, -148000>>, <<0, 0>>, <<1125, -875>>, <<1998000, -148000>>,
     <<80000, 362000>>}

Kinds ==
    {"pm25", "pm10", "no2", "o3", "so2", "co"}

\* The layer names a call is made with: the six kinds and an unknown one.
Layers ==
    Kinds \cup {"xenon"}

Levels ==
    {"negative", "zero", "low", "aboveLow", "medium", "aboveMedium",
     "high", "aboveHigh"}

\* A reading for the layer at a level relative to the breakpoints the
\* generator compares it with, in tenths of a unit.
LevelValue(layer, level) ==
    LET t == thresholdOf(layer) IN
    CASE level = "negative"    -> -50
      [] level = "zero"        -> 0
      [] level = "low"         -> t.low * 10
      [] level = "aboveLow"    -> t.low * 10 + 1
      [] level = "medium"      -> t.medium * 10
      [] level = "aboveMedium" -> t.medium * 10 + 1
      [] level = "high"        -> t.high * 10
      [] level = "aboveHigh"   -> t.high * 10 + 50

\* A reading-set with every layer at the level.
ReadingsAt(level) ==
    [isNull |-> FALSE, readings |-> [k \in Layers |-> LevelValue(k, level)]]

\* A reading-set with no reading for any layer but the summary index.
SummaryOnly ==
    [isNull |-> FALSE, readings |-> [k \in {"aqi"} |-> 420]]

\* pollutantData === null
NullData ==
    [isNull |-> TRUE, readings |-> [k \in {} |-> 0]]

ReadingSets ==
    {ReadingsAt(level) : level \in Levels} \cup {SummaryOnly, NullData}

\* The inputs of the specification that compares two calls.
ReplayAnchors ==
    {<<80000, -148000>>, <<1125, -875>>}

ReplayReadingSets ==
    {ReadingsAt(level) : level \in {"zero", "aboveLow", "aboveMedium", "aboveHigh"}}

(***************************************************************************)
(* State machine                                                           *)
(***************************************************************************)

NoArgs ==
    [lat |-> 0, lon |-> 0, pollutantData |-> NullData, activeLayer |-> "aqi"]

NoResult ==
    [returned |-> "none", overlays |-> <<>>]

NoCall ==
    [args |-> NoArgs, result |-> NoResult, at |-> 0]

(***************************************************************************)
(* App state, PollutantOverlay and the map                                 *)
(***************************************************************************)

\* The coordinates the app is given by geolocation and by clicks.
AppAnchors ==
    {<<80000, -148000>>}

\* The coordinates of the search results selected.
AppCities ==
    {<<80000, -148000>>}

\* The keys of two of the layer buttons.
AppLayers ==
    {"pm25", "co"}

\* The bodies of /api/pollutants responses; NullData stands for a body that
\* is a falsy JSON value (0, false, "").
AppReadingSets ==
    {ReadingsAt("aboveHigh"), NullData}

\* useState(null) for userLocation and clickedLocation.
NoLocation ==
    [set |-> FALSE, lat |-> 0, lng |-> 0]

LocationAt(a) ==
    [set |-> TRUE, lat |-> a[1], lng |-> a[2]]

\* The useState initial values.
InitialApp ==
    [userLocation     |-> NoLocation,
     pollutantData    |-> NullData,
     dataAvailability |-> [k \in {} |-> FALSE],
     activeLayer      |-> "aqi",
     clickedLocation  |-> NoLocation,
     error            |-> "none",
     showFires        |-> FALSE,
     fireData         |-> "null",
     fireLoading      |-> FALSE]

\* The first render: no PollutantOverlay element, and the handlers hold the
\* useState initial values.
NotRendered ==
    [mounted |-> FALSE, userLocation |-> NoLocation,
     pollutantData |-> NullData, activeLayer |-> "aqi", cleanup |-> FALSE,
     state |-> [userLocation |-> NoLocation, loading |-> TRUE,
                showFires |-> FALSE, searchResults |-> <<>>,
                showResults |-> FALSE]]

\* No state change since the last commit: their number, whether one of them
\* put a new object into userLocation or pollutantData (deps), or into
\* userLocation (location).
NothingPending ==
    [changes |-> 0, deps |-> FALSE, location |-> FALSE]

NoCommit ==
    [changes |-> 0, ran |-> "none"]

\* availability in fetchPollutantData: data.k && data.k > 0 for every key.
availabilityOf(data) ==
    [k \in Kinds \cup {"aqi"} |->
        /\ k \in DOMAIN data.readings
        /\ data.readings[k] > 0]

\* A layer of the map that is not a pollutant shape (no options.className).
otherLayer(shape, at) ==
    [shape       |-> shape,
     latlng      |-> [lat |-> at.lat * MicroPerUnit,
                      lng |-> at.lng * MicroPerUnit],
     radius      |-> 0,
     color       |-> "",
     fillColor   |-> "",
     fillOpacity |-> 0,
     weight      |-> 0,
     className   |-> <<>>]

\* The test on layer.options.className in the two eachLayer loops, without
\* 'pollutant-center'.
isPollutantLayerNoCenter(layer) ==
    /\ layer.className # <<>>
    /\ \/ layer.className[1] = "pollutant-base"
       \/ layer.className[1] = "pollutant-spot"

\* The test on layer.options.className in the two eachLayer loops.
isPollutantLayer(layer) ==
    /\ layer.className # <<>>
    /\ \/ layer.className[1] = "pollutant-base"
       \/ layer.className[1] = "pollutant-spot"
       \/ layer.className[1] = "pollutant-center"

isOtherLayer(layer) ==
    ~isPollutantLayer(layer)

\* map.eachLayer(layer => { if (...) map.removeLayer(layer) })
clearOverlays(layers) ==
    SelectSeq(layers, isOtherLayer)

\* The effect with a generator that adds the shapes it creates to the map
\* itself, before the effect adds the array it returns.
pollutantOverlayEffectDrawing(layers, props) ==
    IF ~props.userLocation.set \/ props.pollutantData.isNull
    THEN [layers |-> layers, cleanup |-> FALSE,
          called |-> FALSE, result |-> NoResult]
    ELSE
        LET overlays == createPollutantHeatMap(props.userLocation.lat,
                            props.userLocation.lng, props.pollutantData,
                            props.activeLayer)
        IN  [layers  |-> clearOverlays(layers)
                            \o overlays.overlays \o overlays.overlays,
             cleanup |-> TRUE,
             called  |-> TRUE,
             result  |-> overlays]

\* The body of PollutantOverlay's useEffect: the layers of the map after it,
\* whether it returned a cleanup function, whether it called the generator
\* and what the generator returned.
pollutantOverlayEffect(layers, props) ==
    IF ~props.userLocation.set \/ props.pollutantData.isNull
    THEN [layers |-> layers, cleanup |-> FALSE,
          called |-> FALSE, result |-> NoResult]
    ELSE
        LET overlays == createPollutantHeatMap(props.userLocation.lat,
                            props.userLocation.lng, props.pollutantData,
                            props.activeLayer)
        IN  [layers  |-> IF overlays.returned = "array"
                         THEN clearOverlays(layers) \o overlays.overlays
                         ELSE clearOverlays(layers),
             cleanup |-> TRUE,
             called  |-> TRUE,
             result  |-> overlays]

\* A cleanup function that removes nothing.
pollutantOverlayCleanupNone(layers) ==
    layers

\* The cleanup function the effect returns.
pollutantOverlayCleanup(layers) ==
    clearOverlays(layers)

\* The element rendered for the summary kind as well.
rendersOverlayAqi(state) ==
    /\ state.userLocation.set
    /\ ~state.pollutantData.isNull

\* userLocation ? <MapContainer> ... {pollutantData && activeLayer !== 'aqi'
\* && <PollutantOverlay/>}
rendersOverlay(state) ==
    /\ state.userLocation.set
    /\ ~state.pollutantData.isNull
    /\ state.activeLayer # "aqi"

\* !dataAvailability[activeLayer] && pollutantData && activeLayer !== 'aqi'
showsAvailabilityNotice(state) ==
    /\ ~(/\ state.activeLayer \in DOMAIN state.dataAvailability
         /\ state.dataAvailability[state.activeLayer])
    /\ ~state.pollutantData.isNull
    /\ state.activeLayer # "aqi"

\* {error && <div>{error}</div>}
showsError(state) ==
    state.error # "none"

\* useState('') for searchQuery, [] for searchResults, false for isSearching
\* and showResults.  A text is the sequence of its characters.
InitialSearch ==
    [searchQuery   |-> <<>>,
     searchResults |-> <<>>,
     isSearching   |-> FALSE,
     showResults   |-> FALSE]

\* The debounce effect before its first run.
NoDebounce ==
    [searchQuery |-> <<>>, timers |-> <<>>]

\* A cleanup function that clears nothing.
debounceCleanupNone(timers) ==
    timers

\* return () => clearTimeout(timeoutId): the timer of the run before is
\* cleared.
debounceCleanup(timers) ==
    <<>>

\* The debounce effect run for searchQuery (after the cleanup of the run
\* before): setTimeout(() => { if (searchQuery) handleCitySearch(searchQuery) },
\* 500), the callback holding the searchQuery of this render.
debounceEffect(state, searchQuery) ==
    [searchQuery |-> searchQuery,
     timers      |-> Append(debounceCleanup(state.timers),
                            [query |-> searchQuery, elapsed |-> 0])]

Init ==
    /\ callArgs = NoArgs
    /\ result = NoResult
    /\ callCount = 0
    /\ kept = NoCall
    /\ app = InitialApp
    /\ rendered = NotRendered
    /\ mapLayers = <<>>
    /\ requests = <<>>
    /\ pending = NothingPending
    /\ lastCommit = NoCommit
    /\ loading = TRUE
    /\ aqRequests = <<>>
    /\ search = InitialSearch
    /\ debounce = debounceEffect(NoDebounce, InitialSearch.searchQuery)
    /\ imports = <<>>
    /\ searches = <<>>
    /\ lastSearch = <<>>
    /\ sinceInput = DebounceMs
    /\ refreshTicks = 0
    /\ fireRequests = <<>>
    /\ geolocation = [supported |-> TRUE, outstanding |-> 1]

\* One call createPollutantHeatMap(lat, lon, pollutantData, activeLayer).
Generate(lat, lon, pollutantData, activeLayer) ==
    /\ callCount < MaxCalls
    /\ callArgs' = [lat |-> lat, lon |-> lon, pollutantData |-> pollutantData,
                    activeLayer |-> activeLayer]
    /\ result' = createPollutantHeatMap(lat, lon, pollutantData, activeLayer)
    /\ callCount' = callCount + 1
    /\ UNCHANGED kept
    /\ UNCHANGED appVars

\* The caller keeps the latest call's arguments and result.
Keep ==
    /\ callCount > 0
    /\ kept' = [args |-> callArgs, result |-> result, at |-> callCount]
    /\ UNCHANGED <<callArgs, result, callCount>>
    /\ UNCHANGED appVars

Next ==
    \E a \in Anchors, d \in ReadingSets, l \in Layers :
        Generate(a[1], a[2], d, l)

Spec ==
    Init /\ [][Next]_vars

GenerateReplay ==
    \E a \in ReplayAnchors, d \in ReplayReadingSets, l \in Layers :
        Generate(a[1], a[2], d, l)

NextReplay ==
    \/ GenerateReplay
    \/ Keep

SpecReplay ==
    Init /\ [][NextReplay]_vars

\* The inputs of the specification that compares calls whose values are in
\* the same tier: two levels in each of the two middle tiers, one above.
TierAnchors ==
    {<<80000, -148000>>, <<1125, -875>>}

TierReadingSets ==
    {ReadingsAt(level) :
        level \in {"aboveLow", "medium", "aboveMedium", "high", "aboveHigh"}}

GenerateTier ==
    \E a \in TierAnchors, d \in TierReadingSets, l \in Kinds :
        Generate(a[1], a[2], d, l)

NextTier ==
    \/ GenerateTier
    \/ Keep

SpecTier ==
    Init /\ [][NextTier]_vars

(***************************************************************************)
(* The app: handlers, responses and React commits                          *)
(***************************************************************************)

\* One more state change awaits the next commit; deps tells whether it puts
\* a new object into pollutantData, a dependency of PollutantOverlay's effect.
changed(deps) ==
    [changes  |-> pending.changes + 1,
     deps     |-> pending.deps \/ deps,
     location |-> pending.location]

\* One more state change, which puts a new object into userLocation, a
\* dependency of PollutantOverlay's effect and of the wildfire effect.
changedLocation ==
    [changes  |-> pending.changes + 1,
     deps     |-> TRUE,
     location |-> TRUE]

CanChange ==
    pending.changes < MaxBurst

CanFetch ==
    /\ Len(requests) < MaxInFlight
    /\ Len(aqRequests) < MaxInFlight

\* fetchAirQualityData(lat, lon) up to its first await: setError(null);
\* its setLoading(true) and the request it sends are in the handlers.
startFetches(state) ==
    [state EXCEPT !.error = "none"]

\* The default location of getUserLocation's error callback:
\* { lat: 33.749, lng: -84.388 }.
defaultCoords ==
    [set |-> TRUE, lat |-> 67498, lng |-> -168776]

\* Whether the fire markers are rendered: showFires && fireData &&
\* fireData.features, for a body with features.
showsFires(state) ==
    /\ state.userLocation.set
    /\ state.showFires
    /\ state.fireData = "fires"

\* The first child of the MapContainer that adds a layer is the TileLayer:
\* when the map is first rendered it is on the map before the shapes of
\* PollutantOverlay's effect.
withTileLayer(layers, state) ==
    IF state.userLocation.set
       /\ \A k \in 1..Len(layers) : layers[k].shape # "tileLayer"
    THEN <<otherLayer("tileLayer", NoLocation)>> \o layers
    ELSE layers

\* The layers the MapContainer's children after PollutantOverlay keep on the
\* map: the marker at userLocation, the marker at clickedLocation once there
\* is one, the fire markers while they are rendered.
syncOtherLayers(layers, state) ==
    LET has(shape) == \E k \in 1..Len(layers) : layers[k].shape = shape
        stays(layer) == layer.shape = "fireMarker" => showsFires(state)
        moved == [k \in 1..Len(layers) |->
                    IF layers[k].shape = "marker"
                    THEN otherLayer("marker", state.userLocation)
                    ELSE IF layers[k].shape = "clickedMarker"
                    THEN otherLayer("clickedMarker", state.clickedLocation)
                    ELSE layers[k]]
    IN  SelectSeq(moved, stays)
        \o (IF state.userLocation.set /\ ~has("marker")
            THEN <<otherLayer("marker", state.userLocation)>>
            ELSE <<>>)
        \o (IF state.userLocation.set /\ state.clickedLocation.set
               /\ ~has("clickedMarker")
            THEN <<otherLayer("clickedMarker", state.clickedLocation)>>
            ELSE <<>>)
        \o (IF showsFires(state) /\ ~has("fireMarker")
            THEN <<otherLayer("fireMarker", NoLocation)>>
            ELSE <<>>)

\* getUserLocation's success callback.
LocationFound(a) ==
    /\ CanChange
    /\ geolocation.outstanding > 0
    /\ geolocation' = [geolocation EXCEPT !.outstanding = @ - 1]
    /\ CanFetch
    /\ app' = startFetches([app EXCEPT !.userLocation = LocationAt(a)])
    /\ loading' = TRUE
    /\ aqRequests' = Append(aqRequests, LocationAt(a))
    /\ requests' = Append(requests, LocationAt(a))
    /\ pending' = changedLocation
    /\ UNCHANGED <<rendered, mapLayers, lastCommit>>
    /\ UNCHANGED <<searchVars, refreshTicks>>
    /\ UNCHANGED <<genVars, fireRequests>>

\* getUserLocation's error callback: setError, the default location, then
\* the two fetches (fetchAirQualityData sets the error to null again).
GeolocationError ==
    /\ CanChange
    /\ geolocation.outstanding > 0
    /\ geolocation' = [geolocation EXCEPT !.outstanding = @ - 1]
    /\ CanFetch
    /\ app' = startFetches([app EXCEPT !.error = "location",
                                       !.userLocation = defaultCoords])
    /\ loading' = TRUE
    /\ aqRequests' = Append(aqRequests, defaultCoords)
    /\ requests' = Append(requests, defaultCoords)
    /\ pending' = changedLocation
    /\ UNCHANGED <<rendered, mapLayers, lastCommit>>
    /\ UNCHANGED <<searchVars, refreshTicks>>
    /\ UNCHANGED <<genVars, fireRequests>>

\* getUserLocation when navigator.geolocation is missing: the call made on
\* mount, which returns inside the mount effect and so before any event
\* (the model learns here that the browser has no geolocation), and every
\* later one by the My Location button (disabled={loading}, with the
\* loading of the last render).
GeolocationUnsupported ==
    /\ CanChange
    /\ \/ /\ geolocation = [supported |-> TRUE, outstanding |-> 1]
          /\ app = InitialApp
          /\ lastCommit = NoCommit
          /\ requests = <<>>
          /\ aqRequests = <<>>
          /\ pending.changes = 0
          /\ refreshTicks = 0
       \/ /\ ~geolocation.supported
          /\ ~rendered.state.loading
    /\ geolocation' = [supported |-> FALSE, outstanding |-> 0]
    /\ app' = [app EXCEPT !.error = "unsupported"]
    /\ loading' = FALSE
    /\ pending' = changed(FALSE)
    /\ UNCHANGED <<rendered, mapLayers, requests, lastCommit, aqRequests>>
    /\ UNCHANGED <<searchVars, refreshTicks>>
    /\ UNCHANGED <<genVars, fireRequests>>

\* The My Location button (disabled={loading}, with the loading of the last
\* render) where navigator.geolocation exists: getUserLocation calls
\* getCurrentPosition once more, whatever calls are still unanswered.
MyLocation ==
    /\ ~rendered.state.loading
    /\ geolocation.supported
    /\ geolocation.outstanding < MaxPositionCalls
    /\ geolocation' = [geolocation EXCEPT !.outstanding = @ + 1]
    /\ UNCHANGED <<app, rendered, mapLayers, requests, pending, lastCommit>>
    /\ UNCHANGED <<fetchVars, searchVars, refreshTicks>>
    /\ UNCHANGED <<genVars, fireRequests>>

\* A handleCitySelect that leaves the search state as it is.
CitySelectKeepsSearch(a) ==
    /\ CanChange
    /\ CanFetch
    /\ app' = startFetches([app EXCEPT !.userLocation = LocationAt(a)])
    /\ loading' = TRUE
    /\ aqRequests' = Append(aqRequests, LocationAt(a))
    /\ requests' = Append(requests, LocationAt(a))
    /\ pending' = changedLocation
    /\ UNCHANGED <<rendered, mapLayers, lastCommit>>
    /\ UNCHANGED <<searchVars, refreshTicks, geolocation>>
    /\ UNCHANGED <<genVars, fireRequests>>

\* handleCitySelect(result) with result.lat, result.lon = a.
CitySelect(a) ==
    /\ CanChange
    /\ CanFetch
    /\ app' = startFetches([app EXCEPT !.userLocation = LocationAt(a)])
    /\ loading' = TRUE
    /\ aqRequests' = Append(aqRequests, LocationAt(a))
    /\ requests' = Append(requests, LocationAt(a))
    /\ search' = [search EXCEPT !.searchQuery = <<>>,
                                !.searchResults = <<>>,
                                !.showResults = FALSE]
    /\ sinceInput' = IF search.searchQuery # <<>> THEN 0 ELSE sinceInput
    /\ pending' = changedLocation
    /\ UNCHANGED <<rendered, mapLayers, lastCommit>>
    /\ UNCHANGED <<debounce, imports, searches, lastSearch, refreshTicks,
                   geolocation>>
    /\ UNCHANGED <<genVars, fireRequests>>

\* The MapContainer's click handler with e.latlng = a.
MapClick(a) ==
    /\ CanChange
    /\ CanFetch
    /\ mapLayers # <<>>
    /\ app' = startFetches([app EXCEPT !.clickedLocation = LocationAt(a)])
    /\ loading' = TRUE
    /\ aqRequests' = Append(aqRequests, LocationAt(a))
    /\ requests' = Append(requests, LocationAt(a))
    /\ pending' = changed(FALSE)
    /\ UNCHANGED <<rendered, mapLayers, lastCommit>>
    /\ UNCHANGED <<searchVars, refreshTicks, geolocation>>
    /\ UNCHANGED <<genVars, fireRequests>>

\* handleManualRefresh; its button is disabled={loading || !userLocation}.
\* The button and the handler are those of the last render: they hold its
\* loading and its userLocation.
ManualRefresh ==
    /\ CanChange
    /\ CanFetch
    /\ ~rendered.state.loading
    /\ rendered.state.userLocation.set
    /\ app' = startFetches(app)
    /\ loading' = TRUE
    /\ aqRequests' = Append(aqRequests, rendered.state.userLocation)
    /\ requests' = Append(requests, rendered.state.userLocation)
    /\ pending' = changed(FALSE)
    /\ UNCHANGED <<rendered, mapLayers, lastCommit>>
    /\ UNCHANGED <<searchVars, refreshTicks, geolocation>>
    /\ UNCHANGED <<genVars, fireRequests>>

\* The setInterval callback of the mount effect.  Its closure holds the
\* userLocation of the render the effect ran in, the first one.
IntervalFire ==
    /\ refreshTicks < MaxRefreshes
    /\ refreshTicks' = refreshTicks + 1
    /\ LET userLocation == InitialApp.userLocation
       IN  IF userLocation.set
           THEN /\ CanChange
                /\ CanFetch
                /\ app' = startFetches(app)
                /\ loading' = TRUE
                /\ aqRequests' = Append(aqRequests, userLocation)
                /\ requests' = Append(requests, userLocation)
                /\ pending' = changed(FALSE)
           ELSE UNCHANGED <<app, loading, aqRequests, requests, pending>>
    /\ UNCHANGED <<rendered, mapLayers, lastCommit>>
    /\ UNCHANGED <<searchVars, geolocation>>
    /\ UNCHANGED <<genVars, fireRequests>>

RemoveAt(seq, i) ==
    [k \in 1..(Len(seq) - 1) |-> IF k < i THEN seq[k] ELSE seq[k + 1]]

\* fetchPollutantData after its awaits, the response being ok with body data.
PollutantResponse(i, data) ==
    /\ CanChange
    /\ i \in 1..Len(requests)
    /\ app' = [app EXCEPT !.dataAvailability = availabilityOf(data),
                          !.pollutantData = data]
    /\ requests' = RemoveAt(requests, i)
    /\ pending' = changed(TRUE)
    /\ UNCHANGED <<rendered, mapLayers, lastCommit>>
    /\ UNCHANGED <<fetchVars, searchVars, refreshTicks, geolocation>>
    /\ UNCHANGED <<genVars, fireRequests>>

\* fetchPollutantData's catch block: the request failed.
PollutantFailure(i) ==
    /\ CanChange
    /\ i \in 1..Len(requests)
    /\ app' = [app EXCEPT !.error = "pollutant"]
    /\ requests' = RemoveAt(requests, i)
    /\ pending' = changed(FALSE)
    /\ UNCHANGED <<rendered, mapLayers, lastCommit>>
    /\ UNCHANGED <<fetchVars, searchVars, refreshTicks, geolocation>>
    /\ UNCHANGED <<genVars, fireRequests>>

\* fetchAirQualityData after its awaits, the response being ok:
\* setAirQualityData, setLastUpdate, and setLoading(false) in finally.
AqResponse(i) ==
    /\ CanChange
    /\ i \in 1..Len(aqRequests)
    /\ aqRequests' = RemoveAt(aqRequests, i)
    /\ loading' = FALSE
    /\ pending' = changed(FALSE)
    /\ UNCHANGED <<app, rendered, mapLayers, requests, lastCommit>>
    /\ UNCHANGED <<searchVars, refreshTicks, geolocation>>
    /\ UNCHANGED <<genVars, fireRequests>>

\* fetchAirQualityData's catch block, then setLoading(false) in finally.
AqFailure(i) ==
    /\ CanChange
    /\ i \in 1..Len(aqRequests)
    /\ app' = [app EXCEPT !.error = "airquality"]
    /\ aqRequests' = RemoveAt(aqRequests, i)
    /\ loading' = FALSE
    /\ pending' = changed(FALSE)
    /\ UNCHANGED <<rendered, mapLayers, requests, lastCommit>>
    /\ UNCHANGED <<searchVars, refreshTicks, geolocation>>
    /\ UNCHANGED <<genVars, fireRequests>>

\* onClick={() => setActiveLayer(pollutant.key)}.
SetActiveLayer(layer) ==
    /\ CanChange
    /\ layer # app.activeLayer
    /\ app' = [app EXCEPT !.activeLayer = layer]
    /\ pending' = changed(FALSE)
    /\ UNCHANGED <<rendered, mapLayers, requests, lastCommit>>
    /\ UNCHANGED <<fetchVars, searchVars, refreshTicks, geolocation>>
    /\ UNCHANGED <<genVars, fireRequests>>

\* onClick={() => setShowFires(!showFires)}, with the showFires of the last
\* render; a set to the value the state already has changes nothing.
ToggleFires ==
    /\ CanChange
    /\ app.showFires = rendered.state.showFires
    /\ app' = [app EXCEPT !.showFires = ~rendered.state.showFires]
    /\ pending' = changed(FALSE)
    /\ UNCHANGED <<rendered, mapLayers, requests, lastCommit>>
    /\ UNCHANGED <<fetchVars, searchVars, refreshTicks, geolocation>>
    /\ UNCHANGED <<genVars, fireRequests>>

\* fetchFireData after its awaits, the response being ok with the body:
\* setFireData, and setFireLoading(false) in finally.
FireResponse(i, body) ==
    /\ CanChange
    /\ i \in 1..Len(fireRequests)
    /\ app' = [app EXCEPT !.fireData = body, !.fireLoading = FALSE]
    /\ fireRequests' = RemoveAt(fireRequests, i)
    /\ pending' = changed(FALSE)
    /\ UNCHANGED <<rendered, mapLayers, requests, lastCommit>>
    /\ UNCHANGED <<fetchVars, searchVars, refreshTicks, geolocation>>
    /\ UNCHANGED genVars

\* fetchFireData's catch block, then setFireLoading(false) in finally.
FireFailure(i) ==
    /\ CanChange
    /\ i \in 1..Len(fireRequests)
    /\ app' = [app EXCEPT !.error = "wildfire", !.fireLoading = FALSE]
    /\ fireRequests' = RemoveAt(fireRequests, i)
    /\ pending' = changed(FALSE)
    /\ UNCHANGED <<rendered, mapLayers, requests, lastCommit>>
    /\ UNCHANGED <<fetchVars, searchVars, refreshTicks, geolocation>>
    /\ UNCHANGED genVars

\* A dependency array of PollutantOverlay's effect without activeLayer.
effectDepsChangedNoLayer(last, state, changes) ==
    changes.deps

\* Whether the dependencies [userLocation, pollutantData, activeLayer, map]
\* of PollutantOverlay's effect differ from those of the last render: a new
\* object in userLocation or pollutantData, or another activeLayer.
effectDepsChanged(last, state, changes) ==
    \/ changes.deps
    \/ state.activeLayer # last.activeLayer

\* Whether the wildfire effect (dependencies [showFires, userLocation]) runs
\* and calls fetchFireData past its first test: if (showFires && userLocation).
startsFireFetch(last, state, changes) ==
    /\ \/ state.showFires # last.state.showFires
       \/ changes.location
    /\ state.showFires
    /\ state.userLocation.set

\* React renders the App with the current state and runs the effects.  The
\* TileLayer comes first.  PollutantOverlay: the cleanup of the previous
\* effect when the element is unmounted or a dependency changed, then the
\* effect when the element is mounted or a dependency changed; the effect
\* calls the generator.  Then the markers.  The wildfire effect starts
\* fetchFireData (setFireLoading(true) and the request).  The debounce
\* effect runs again (its cleanup first) when searchQuery differs from the
\* one it last ran with.
Commit ==
    /\ pending.changes > 0
    /\ LET was   == rendered.mounted
           now   == rendersOverlay(app)
           rerun == was /\ now /\ effectDepsChanged(rendered, app, pending)
           onMap == withTileLayer(mapLayers, app)
           afterCleanup ==
               IF was /\ rendered.cleanup /\ (~now \/ rerun)
               THEN pollutantOverlayCleanup(onMap)
               ELSE onMap
           runs == now /\ (~was \/ rerun)
           effect ==
               IF runs
               THEN pollutantOverlayEffect(afterCleanup, app)
               ELSE [layers  |-> afterCleanup,
                     cleanup |-> now /\ rendered.cleanup,
                     called  |-> FALSE,
                     result  |-> NoResult]
           ran ==
               IF now /\ ~was THEN "effect"
               ELSE IF rerun THEN "cleanup, effect"
               ELSE IF was /\ ~now THEN "cleanup"
               ELSE "none"
           fires == startsFireFetch(rendered, app, pending)
       IN  /\ effect.called => callCount < MaxCalls
           /\ fires => Len(fireRequests) < MaxInFlight
           /\ IF effect.called
              THEN /\ callArgs' = [lat           |-> app.userLocation.lat,
                                   lon           |-> app.userLocation.lng,
                                   pollutantData |-> app.pollutantData,
                                   activeLayer   |-> app.activeLayer]
                   /\ result' = effect.result
                   /\ callCount' = callCount + 1
              ELSE UNCHANGED <<callArgs, result, callCount>>
           /\ mapLayers' = syncOtherLayers(effect.layers, app)
           /\ lastCommit' = [changes |-> pending.changes, ran |-> ran]
           /\ rendered' =
                  [(IF now
                    THEN [NotRendered EXCEPT
                             !.mounted       = TRUE,
                             !.userLocation  = app.userLocation,
                             !.pollutantData = app.pollutantData,
                             !.activeLayer   = app.activeLayer,
                             !.cleanup       = effect.cleanup]
                    ELSE NotRendered)
                   EXCEPT !.state =
                      [userLocation  |-> app.userLocation,
                       loading       |-> loading,
                       showFires     |-> app.showFires,
                       searchResults |-> search.searchResults,
                       showResults   |-> search.showResults]]
           /\ app' = IF fires THEN [app EXCEPT !.fireLoading = TRUE] ELSE app
           /\ fireRequests' = IF fires
                              THEN Append(fireRequests, app.userLocation)
                              ELSE fireRequests
           /\ pending' = IF fires /\ ~app.fireLoading
                         THEN [NothingPending EXCEPT !.changes = 1]
                         ELSE NothingPending
    /\ debounce' = IF search.searchQuery # debounce.searchQuery
                   THEN debounceEffect(debounce, search.searchQuery)
                   ELSE debounce
    /\ UNCHANGED <<kept, requests>>
    /\ UNCHANGED <<fetchVars, search, imports, searches, lastSearch, sinceInput,
                   refreshTicks, geolocation>>

\* The overlay lifecycle: locating, selecting, clicking and refreshing, the
\* answers to the requests, the layer buttons and the commits.
NextApp ==
    \/ \E a \in AppAnchors : LocationFound(a)
    \/ GeolocationError
    \/ \E a \in AppCities : CitySelect(a)
    \/ \E a \in AppAnchors : MapClick(a)
    \/ ManualRefresh
    \/ \E i \in 1..MaxInFlight, data \in AppReadingSets :
          PollutantResponse(i, data)
    \/ \E i \in 1..MaxInFlight : PollutantFailure(i)
    \/ \E i \in 1..MaxInFlight : AqResponse(i)
    \/ \E i \in 1..MaxInFlight : AqFailure(i)
    \/ \E layer \in AppLayers : SetActiveLayer(layer)
    \/ Commit

SpecApp ==
    Init /\ [][NextApp]_vars

(***************************************************************************)
(* City search: the input, the debounce timer and searchCity               *)
(***************************************************************************)

\* The texts typed into the search input.
SearchTexts ==
    {<<>>, <<"r", "o">>, <<"r", "o", "m", "e">>}

\* searchCity(cityName) when the geocoder answers: the results it maps the
\* response to, lat and lon parsed to numbers (units of 1/2000 degree).
searchCity(cityName) ==
    IF cityName = <<"n", "y", "c">>
    THEN <<[name |-> "New York", lat |-> 80000, lon |-> -148000]>>
    ELSE IF cityName = <<"r", "o", "m", "e">>
    THEN <<[name |-> "Rome", lat |-> 1125, lon |-> -875]>>
    ELSE <<>>

\* A handleCitySearch without the test on the query's length.
handleCitySearchAnyLength(state, query) ==
    [search |-> [state EXCEPT !.isSearching = TRUE], searching |-> TRUE]

\* handleCitySearch(query) up to its first await: the search state it leaves
\* and whether it goes on to call searchCity.
handleCitySearch(state, query) ==
    IF query = <<>> \/ Len(query) < 3
    THEN [search    |-> [state EXCEPT !.searchResults = <<>>,
                                      !.showResults = FALSE],
          searching |-> FALSE]
    ELSE [search |-> [state EXCEPT !.isSearching = TRUE], searching |-> TRUE]

\* React renders the state change of an input event before the next input
\* event is handled: the debounce effect has run for the current text.
InputRendered ==
    search.searchQuery = debounce.searchQuery

\* onChange={(e) => setSearchQuery(e.target.value)}
Type(text) ==
    /\ CanChange
    /\ InputRendered
    /\ text # search.searchQuery
    /\ search' = [search EXCEPT !.searchQuery = text]
    /\ sinceInput' = 0
    /\ pending' = changed(FALSE)
    /\ UNCHANGED <<app, rendered, mapLayers, requests, lastCommit>>
    /\ UNCHANGED <<fetchVars, debounce, imports, searches, lastSearch, refreshTicks,
                   geolocation>>
    /\ UNCHANGED <<genVars, fireRequests>>

\* TickMs milliseconds pass.  React has rendered every state change before
\* the event loop runs another task, so time passes between commits only.
Tick ==
    /\ pending.changes = 0
    /\ debounce' = [debounce EXCEPT !.timers =
                       [k \in 1..Len(debounce.timers) |->
                           [debounce.timers[k] EXCEPT
                               !.elapsed = Min(@ + TickMs, DebounceMs)]]]
    /\ sinceInput' = Min(sinceInput + TickMs, DebounceMs)
    /\ UNCHANGED <<app, rendered, mapLayers, requests, pending, lastCommit>>
    /\ UNCHANGED <<fetchVars, search, imports, searches, lastSearch, refreshTicks,
                   geolocation>>
    /\ UNCHANGED <<genVars, fireRequests>>

\* The callback of the debounce effect's setTimeout, 500 ms after it was
\* set: if (searchQuery) handleCitySearch(searchQuery), up to its first
\* await, the import of ./utils/api.
DebounceFire(i) ==
    /\ pending.changes = 0
    /\ i \in 1..Len(debounce.timers)
    /\ debounce.timers[i].elapsed >= DebounceMs
    /\ debounce' = [debounce EXCEPT !.timers = RemoveAt(debounce.timers, i)]
    /\ LET query == debounce.timers[i].query
           after == handleCitySearch(search, query)
       IN  IF query = <<>>
           THEN UNCHANGED <<search, imports, pending>>
           ELSE /\ search' = after.search
                /\ pending' = changed(FALSE)
                /\ IF after.searching
                   THEN /\ Len(imports) + Len(searches) < MaxSearches
                        /\ imports' = Append(imports, query)
                   ELSE UNCHANGED imports
    /\ UNCHANGED <<app, rendered, mapLayers, requests, lastCommit>>
    /\ UNCHANGED <<fetchVars, searches, lastSearch, sinceInput, refreshTicks,
                   geolocation>>
    /\ UNCHANGED <<genVars, fireRequests>>

\* handleCitySearch after await import('./utils/api'): the module has
\* loaded and searchCity(query) is called.  The imports of one module
\* resolve in the order they were made.
ImportResolved ==
    /\ imports # <<>>
    /\ searches' = Append(searches, Head(imports))
    /\ lastSearch' = Head(imports)
    /\ imports' = Tail(imports)
    /\ UNCHANGED <<app, rendered, mapLayers, requests, pending, lastCommit>>
    /\ UNCHANGED <<fetchVars, search, debounce, sinceInput, refreshTicks,
                   geolocation>>
    /\ UNCHANGED <<genVars, fireRequests>>

\* handleCitySearch's catch block, the import having failed: no searchCity
\* call is made.
ImportFailure ==
    /\ CanChange
    /\ imports # <<>>
    /\ search' = [search EXCEPT !.searchResults = <<>>,
                                !.isSearching = FALSE]
    /\ imports' = Tail(imports)
    /\ pending' = changed(FALSE)
    /\ UNCHANGED <<app, rendered, mapLayers, requests, lastCommit>>
    /\ UNCHANGED <<fetchVars, debounce, searches, lastSearch, sinceInput,
                   refreshTicks, geolocation>>
    /\ UNCHANGED <<genVars, fireRequests>>

\* handleCitySearch after its awaits, searchCity having returned.
SearchResponse(i) ==
    /\ CanChange
    /\ i \in 1..Len(searches)
    /\ search' = [search EXCEPT !.searchResults = searchCity(searches[i]),
                                !.showResults = TRUE,
                                !.isSearching = FALSE]
    /\ searches' = RemoveAt(searches, i)
    /\ pending' = changed(FALSE)
    /\ UNCHANGED <<app, rendered, mapLayers, requests, lastCommit>>
    /\ UNCHANGED <<fetchVars, debounce, imports, lastSearch, sinceInput,
                   refreshTicks, geolocation>>
    /\ UNCHANGED <<genVars, fireRequests>>

\* handleCitySearch's catch block, searchCity having thrown.
SearchFailure(i) ==
    /\ CanChange
    /\ i \in 1..Len(searches)
    /\ search' = [search EXCEPT !.searchResults = <<>>,
                                !.isSearching = FALSE]
    /\ searches' = RemoveAt(searches, i)
    /\ pending' = changed(FALSE)
    /\ UNCHANGED <<app, rendered, mapLayers, requests, lastCommit>>
    /\ UNCHANGED <<fetchVars, debounce, imports, lastSearch, sinceInput,
                   refreshTicks, geolocation>>
    /\ UNCHANGED <<genVars, fireRequests>>

\* A click on the k-th entry of the dropdown, which the last render shows
\* when its showResults && searchResults.length > 0.
ResultClick(k) ==
    /\ InputRendered
    /\ rendered.state.showResults
    /\ k \in 1..Len(rendered.state.searchResults)
    /\ CitySelect(<<rendered.state.searchResults[k].lat,
                    rendered.state.searchResults[k].lon>>)

\* handleClickOutside: a mousedown outside the search box.
ClickOutside ==
    /\ CanChange
    /\ search.showResults
    /\ search' = [search EXCEPT !.showResults = FALSE]
    /\ pending' = changed(FALSE)
    /\ UNCHANGED <<app, rendered, mapLayers, requests, lastCommit>>
    /\ UNCHANGED <<fetchVars, debounce, imports, searches, lastSearch, sinceInput,
                   refreshTicks, geolocation>>
    /\ UNCHANGED <<genVars, fireRequests>>

\* The body /api/pollutants answers with for a request: the readings at the
\* requested point, which differ from point to point.
pollutantsAt(at) ==
    IF at = defaultCoords
    THEN ReadingsAt("aboveLow")
    ELSE IF at = LocationAt(<<80000, -148000>>)
    THEN ReadingsAt("aboveHigh")
    ELSE SummaryOnly

\* The position the browser answers the call made on mount with, which is
\* that of no city found.
SearchAnchors ==
    {<<2000, 4000>>}

\* The city search: the answer to the position request made on mount,
\* typing, time, the timer, the import, the answers to the searches, clicks
\* on a result and outside, the answers to the requests a selection starts
\* and the commits.
NextSearch ==
    \/ \E a \in SearchAnchors : LocationFound(a)
    \/ GeolocationError
    \/ \E text \in SearchTexts : Type(text)
    \/ Tick
    \/ \E i \in 1..Len(debounce.timers) : DebounceFire(i)
    \/ ImportResolved
    \/ ImportFailure
    \/ \E i \in 1..MaxInFlight : SearchResponse(i)
    \/ \E i \in 1..MaxInFlight : SearchFailure(i)
    \/ \E k \in 1..Len(rendered.state.searchResults) : ResultClick(k)
    \/ ClickOutside
    \/ \E i \in 1..Len(requests) :
          PollutantResponse(i, pollutantsAt(requests[i]))
    \/ \E i \in 1..MaxInFlight : PollutantFailure(i)
    \/ \E i \in 1..MaxInFlight : AqResponse(i)
    \/ \E i \in 1..MaxInFlight : AqFailure(i)
    \/ Commit

SpecSearch ==
    Init /\ [][NextSearch]_vars

(***************************************************************************)
(* Locating and fetching: geolocation, refreshes and overlapping fetches   *)
(***************************************************************************)

\* The coordinates geolocation and the selected search results give.
FetchAnchors ==
    {<<80000, -148000>>}

\* The points of the map clicked.
FetchClicks ==
    {<<1125, -875>>}

FetchLayers ==
    {"pm25"}

NextFetch ==
    \/ \E a \in FetchAnchors : LocationFound(a)
    \/ \E a \in FetchAnchors : CitySelect(a)
    \/ GeolocationError
    \/ GeolocationUnsupported
    \/ MyLocation
    \/ \E a \in FetchClicks : MapClick(a)
    \/ \E i \in 1..Len(requests) :
          PollutantResponse(i, pollutantsAt(requests[i]))
    \/ \E i \in 1..MaxInFlight : PollutantFailure(i)
    \/ \E i \in 1..MaxInFlight : AqResponse(i)
    \/ \E i \in 1..MaxInFlight : AqFailure(i)
    \/ \E layer \in FetchLayers : SetActiveLayer(layer)
    \/ Commit

\* The auto-refresh: locating, selecting, refreshing by hand, the interval,
\* the answers to the requests and the commits.
NextRefresh ==
    \/ \E a \in FetchAnchors : LocationFound(a)
    \/ GeolocationError
    \/ \E a \in FetchClicks : CitySelect(a)
    \/ ManualRefresh
    \/ IntervalFire
    \/ \E i \in 1..Len(requests) :
          PollutantResponse(i, pollutantsAt(requests[i]))
    \/ \E i \in 1..MaxInFlight : PollutantFailure(i)
    \/ \E i \in 1..MaxInFlight : AqResponse(i)
    \/ \E i \in 1..MaxInFlight : AqFailure(i)
    \/ Commit

SpecRefresh ==
    Init /\ [][NextRefresh]_vars

SpecFetch ==
    Init /\ [][NextFetch]_vars

\* The bodies of /api/fires responses: a feature collection with features.
FireBodies ==
    {"fires"}

FireLayers ==
    {"pm25"}

\* The wildfire layer next to the overlay: locating, refreshing, one layer
\* button and the fires toggle, the answers to the requests and the commits.
NextFires ==
    \/ \E a \in AppAnchors : LocationFound(a)
    \/ GeolocationError
    \/ ManualRefresh
    \/ \E i \in 1..MaxInFlight, data \in AppReadingSets :
          PollutantResponse(i, data)
    \/ \E i \in 1..MaxInFlight : PollutantFailure(i)
    \/ \E i \in 1..MaxInFlight : AqResponse(i)
    \/ \E i \in 1..MaxInFlight : AqFailure(i)
    \/ \E layer \in FireLayers : SetActiveLayer(layer)
    \/ ToggleFires
    \/ \E i \in 1..MaxInFlight, body \in FireBodies : FireResponse(i, body)
    \/ \E i \in 1..MaxInFlight : FireFailure(i)
    \/ Commit

SpecFires ==
    Init /\ [][NextFires]_vars

(***************************************************************************)
(* Properties of the overlay generator                                     *)
(***************************************************************************)

\* The anchor is inside latitude [-90, 90] and longitude [-180, 180]
\* (units of 1/2000 degree).
ValidAnchor(lat, lon) ==
    /\ lat \in (-90 * 2000)..(90 * 2000)
    /\ lon \in (-180 * 2000)..(180 * 2000)

\* The reading of the call's layer is present in its reading-set.
HasReading(args) ==
    /\ ~args.pollutantData.isNull
    /\ args.activeLayer \in DOMAIN args.pollutantData.readings

\* A valid anchor, a recognized kind and a reading that is not negative.
ValidInput(args) ==
    /\ ValidAnchor(args.lat, args.lon)
    /\ args.activeLayer \in Kinds
    /\ ~args.pollutantData.isNull
    /\ baseValueOf(args.pollutantData, args.activeLayer) >= 0

Called ==
    callCount > 0

CallValue ==
    baseValueOf(callArgs.pollutantData, callArgs.activeLayer)

CallThreshold ==
    thresholdOf(callArgs.activeLayer)

CallSeed ==
    spotSeedOf(callArgs.lat, callArgs.lon, callArgs.activeLayer)

\* The number of shapes between the first and the last.
HotspotCount(res) ==
    Len(res.overlays) - 2

IsBase(shape) ==
    shape.shape = "circle" /\ shape.className[1] = "pollutant-base"

IsSpot(shape) ==
    shape.shape = "circle" /\ shape.className[1] = "pollutant-spot"

IsMarker(shape) ==
    shape.shape = "circleMarker" /\ shape.className[1] = "pollutant-center"

\* One base shape, then hotspots only, then one marker.
WellFormed(ov) ==
    /\ Len(ov) >= 2
    /\ IsBase(ov[1])
    /\ \A k \in 2..(Len(ov) - 1) : IsSpot(ov[k])
    /\ IsMarker(ov[Len(ov)])

\* C2: for a valid input the overlay is one base shape, N hotspots and one
\* marker at the end, with 0 <= N <= 12 and a length N + 2 in 1..14.
C2_OverlayLayout ==
    (Called /\ ValidInput(callArgs)) =>
        /\ result.returned = "array"
        /\ WellFormed(result.overlays)
        /\ HotspotCount(result) \in 0..12
        /\ Len(result.overlays) \in 1..14

\* A valid input gives the longest overlay, 14 shapes.
C2_Witness ==
    /\ Called
    /\ ValidInput(callArgs)
    /\ Len(result.overlays) = 14

\* C3: the hotspot count is in the range of the tier the value falls into
\* for the breakpoints the layer is compared with: 0..2, 3..6, 6..9, 8..12.
C3_TierRange ==
    (Called /\ result.returned = "array") =>
        LET v == CallValue
            t == CallThreshold
            n == HotspotCount(result)
        IN  /\ (v <= t.low * 10) => n \in 0..2
            /\ (t.low * 10 < v /\ v <= t.medium * 10) => n \in 3..6
            /\ (t.medium * 10 < v /\ v <= t.high * 10) => n \in 6..9
            /\ (t.high * 10 < v) => n \in 8..12

\* pm25 with the value 60 > 55 at (40, -74).
C3_Witness ==
    /\ Called
    /\ callArgs.activeLayer = "pm25"
    /\ callArgs.lat = 80000
    /\ ~callArgs.pollutantData.isNull
    /\ CallValue = 600
    /\ HotspotCount(result) \in 8..12

\* The branch of the numSpots chain an argument tuple takes.
RangeOfCall(args) ==
    spotRange(baseValueOf(args.pollutantData, args.activeLayer),
              thresholdOf(args.activeLayer))

\* C4: for two calls with the same layer where the later value is one tier
\* above the kept one, the lower bound of the later tier's hotspot range is
\* not below that of the kept tier, and the later count respects it.
C4_MonotonicLowerBound ==
    (/\ kept # NoCall
     /\ kept.args.activeLayer = callArgs.activeLayer
     /\ RangeOfCall(callArgs).tier = RangeOfCall(kept.args).tier + 1) =>
        /\ RangeOfCall(callArgs).base >= RangeOfCall(kept.args).base
        /\ HotspotCount(result) >= RangeOfCall(callArgs).base
        /\ HotspotCount(kept.result) >= RangeOfCall(kept.args).base

\* A kept call in the second tier followed by a call in the third tier for
\* the same layer, both at their lower bounds 3 and 6.
C4_Witness ==
    /\ kept # NoCall
    /\ kept.args.activeLayer = callArgs.activeLayer
    /\ RangeOfCall(kept.args).tier = 1
    /\ RangeOfCall(callArgs).tier = 2
    /\ HotspotCount(kept.result) = 3
    /\ HotspotCount(result) = 6

\* The largest offset of a hotspot from the anchor: 0.8 * baseRadius.
MaxSpotDistance ==
    (baseRadius * 8) \div 10

\* The hotspot's centre is within MaxSpotDistance of the anchor.
WithinReach(shape, lat, lon) ==
    LET dLat == Abs(shape.latlng.lat - lat * MicroPerUnit)
        dLng == Abs(shape.latlng.lng - lon * MicroPerUnit)
    IN  /\ dLat <= MaxSpotDistance
        /\ dLng <= MaxSpotDistance
        /\ dLat * dLat <= MaxSpotDistance * MaxSpotDistance - dLng * dLng

\* C5: every hotspot centre is within 0.8 * baseRadius of the anchor and the
\* distance drawn for it is in [0, 0.8 * baseRadius].
C5_Containment ==
    (Called /\ result.returned = "array") =>
        \A k \in 2..(Len(result.overlays) - 1) :
            /\ spotDistance(CallSeed, k - 2) \in 0..MaxSpotDistance
            /\ WithinReach(result.overlays[k], callArgs.lat, callArgs.lon)

\* A hotspot drawn in the outer tenth of the allowed distance.
C5_Witness ==
    /\ Called
    /\ result.returned = "array"
    /\ \E k \in 2..(Len(result.overlays) - 1) :
          spotDistance(CallSeed, k - 2) * 10 >= MaxSpotDistance * 9

\* The fill opacity the formula 0.4 + 0.5 * min(1, value / high) gives, in
\* millionths, for a value in tenths of a unit.
FormulaOpacity(v, high) ==
    400000 + (Min(Million, (v * 100000) \div high) \div 2)

\* C6: every hotspot's fill opacity is 0.4 + 0.5 * min(1, value / high), is
\* within [0.4, 0.9] for every value the generator returns an overlay for,
\* is 0.4 at value 0 and 0.9 for every value >= high.
C6_OpacityBound ==
    (Called /\ result.returned = "array") =>
        \A k \in 2..(Len(result.overlays) - 1) :
            LET opacity == result.overlays[k].fillOpacity IN
            /\ opacity = FormulaOpacity(CallValue, CallThreshold.high)
            /\ opacity \in 400000..900000
            /\ (CallValue = 0) => (opacity = 400000)
            /\ (CallValue >= CallThreshold.high * 10) => (opacity = 900000)

\* C7: a call with an anchor outside latitude [-90, 90] or longitude
\* [-180, 180] fails with InvalidAnchor and returns no overlay.
C7_InvalidAnchorFails ==
    (Called /\ ~ValidAnchor(callArgs.lat, callArgs.lon)) =>
        result.returned = "InvalidAnchor"

\* C8: a call with a kind outside the recognized kinds fails with
\* UnsupportedPollutantKind, and the breakpoints of no other kind are used
\* for it.
C8_UnknownKindFails ==
    (Called /\ callArgs.activeLayer \notin Kinds) =>
        /\ result.returned = "UnsupportedPollutantKind"
        /\ CallThreshold \notin {thresholds[k] : k \in DOMAIN thresholds}

\* C9: a call with a negative reading for the layer fails with
\* InvalidReading and returns no overlay.
C9_NegativeFails ==
    (Called /\ HasReading(callArgs) /\ CallValue < 0) =>
        result.returned = "InvalidReading"

\* The layer's reading is 0 or missing from a reading-set that is present.
NoMeasurement(args) ==
    /\ ~args.pollutantData.isNull
    /\ \/ args.activeLayer \notin DOMAIN args.pollutantData.readings
       \/ args.pollutantData.readings[args.activeLayer] = 0

\* C10: a reading of 0 or a missing reading is not an error: the overlay is
\* the base shape, N hotspots with N in 0..2, each of opacity 0.4, and the
\* marker.
C10_NoMeasurement ==
    (Called /\ NoMeasurement(callArgs)) =>
        /\ result.returned = "array"
        /\ WellFormed(result.overlays)
        /\ HotspotCount(result) \in 0..2
        /\ \A k \in 2..(Len(result.overlays) - 1) :
              result.overlays[k].fillOpacity = 400000

\* A reading-set without the layer's reading gives two hotspots.
C10_Witness ==
    /\ Called
    /\ ~callArgs.pollutantData.isNull
    /\ callArgs.activeLayer \notin DOMAIN callArgs.pollutantData.readings
    /\ HotspotCount(result) = 2

\* C11: two calls that differ in the anchor or in the layer have different
\* seeds.
C11_DistinctSeeds ==
    (/\ kept # NoCall
     /\ \/ kept.args.lat # callArgs.lat
        \/ kept.args.lon # callArgs.lon
        \/ kept.args.activeLayer # callArgs.activeLayer) =>
        spotSeedOf(kept.args.lat, kept.args.lon, kept.args.activeLayer)
            # spotSeedOf(callArgs.lat, callArgs.lon, callArgs.activeLayer)

\* C12: every one of the six kinds a call is made with has its own set of
\* breakpoints in the table, with 0 < low < medium < high.
C12_ThresholdSets ==
    (Called /\ callArgs.activeLayer \in Kinds) =>
        /\ callArgs.activeLayer \in DOMAIN thresholds
        /\ 0 < CallThreshold.low
        /\ CallThreshold.low < CallThreshold.medium
        /\ CallThreshold.medium < CallThreshold.high

\* C13: every overlay starts with the base shape, centred at the anchor, with
\* radius 5550 m and fill opacity 0.3, in the palette colour of the kind,
\* whatever the value.
C13_BaseRegion ==
    (Called /\ result.returned = "array") =>
        LET base == result.overlays[1] IN
        /\ IsBase(base)
        /\ base.latlng = [lat |-> callArgs.lat * MicroPerUnit,
                          lng |-> callArgs.lon * MicroPerUnit]
        /\ base.radius = 5550 * 1000
        /\ base.fillOpacity = 300000
        /\ (callArgs.activeLayer \in Kinds) =>
              /\ base.color = colors[callArgs.activeLayer]
              /\ base.fillColor = colors[callArgs.activeLayer]

\* The base shape of an overlay for a value above high at (0.5625, -0.4375).
C13_Witness ==
    /\ Called
    /\ result.returned = "array"
    /\ callArgs.lat = 1125
    /\ callArgs.lon = -875
    /\ callArgs.activeLayer = "o3"
    /\ CallValue > CallThreshold.high * 10
    /\ result.overlays[1].radius = 5550 * 1000

\* C14: every hotspot radius is in [200 m, 1000 m].
C14_SpotRadius ==
    (Called /\ result.returned = "array") =>
        \A k \in 2..(Len(result.overlays) - 1) :
            result.overlays[k].radius \in (200 * 1000)..(1000 * 1000)

\* C15: the base shape and all hotspots have the palette colour of the kind;
\* the marker is the last shape, white, of fill opacity 0.9 and centred at the
\* anchor, whatever the value.
C15_Colours ==
    (Called /\ result.returned = "array") =>
        LET ov     == result.overlays
            marker == ov[Len(ov)]
        IN  /\ \A k \in 1..(Len(ov) - 1) :
                  /\ ov[k].color = ov[1].color
                  /\ ov[k].fillColor = ov[1].color
                  /\ (callArgs.activeLayer \in Kinds) =>
                        ov[k].color = colors[callArgs.activeLayer]
            /\ IsMarker(marker)
            /\ marker.color = "#ffffff"
            /\ marker.fillColor = "#ffffff"
            /\ marker.fillOpacity = 900000
            /\ marker.latlng = [lat |-> callArgs.lat * MicroPerUnit,
                                lng |-> callArgs.lon * MicroPerUnit]

\* An overlay of a recognized kind with twelve hotspots.
C15_Witness ==
    /\ Called
    /\ result.returned = "array"
    /\ callArgs.activeLayer \in Kinds
    /\ HotspotCount(result) = 12

(***************************************************************************)
(* Properties of the overlay lifecycle                                     *)
(***************************************************************************)

\* Every state change has been rendered and its effects have run.
Settled ==
    pending.changes = 0

\* The circles on the map: only the generator creates circles.
EngineShapes(layers) ==
    LET IsCircle(layer) == layer.shape \in {"circle", "circleMarker"}
    IN  SelectSeq(layers, IsCircle)

\* The kinds of the layers on the map that are not circles.
OtherShapes(layers) ==
    {layers[k].shape : k \in 1..Len(layers)} \ {"circle", "circleMarker"}

\* There is an anchor, a reading-set and an active kind other than 'aqi'.
HasOverlayInputs(state) ==
    /\ state.userLocation.set
    /\ ~state.pollutantData.isNull
    /\ state.activeLayer # "aqi"

\* What the generator returns for the state's anchor, reading-set and kind.
OverlayFor(state) ==
    createPollutantHeatMap(state.userLocation.lat, state.userLocation.lng,
                           state.pollutantData, state.activeLayer)

\* The shapes the map is to show for the state.
ExpectedShapes(state) ==
    IF HasOverlayInputs(state) THEN OverlayFor(state).overlays ELSE <<>>

\* C16: once the effect has reacted to the changes of (anchor, reading-set,
\* active kind), the circles on the map are the generated overlay of the
\* current state, in overlay order; at no time are two overlays on the map.
C16_MapShowsCurrentOverlay ==
    /\ (Settled /\ HasOverlayInputs(app)) =>
          EngineShapes(mapLayers) = OverlayFor(app).overlays
    /\ Cardinality({k \in 1..Len(mapLayers) :
                       mapLayers[k].shape = "circleMarker"}) <= 1

\* The effect ran again after a change and drew an overlay with hotspots.
C16_Witness ==
    /\ Settled
    /\ lastCommit.ran = "cleanup, effect"
    /\ HasOverlayInputs(app)
    /\ Len(EngineShapes(mapLayers)) > 2

\* C17: after a commit without an overlay to show (the element unmounted or
\* never mounted: active kind 'aqi' or no reading-set) no circle is left on
\* the map, and no step removes a layer that is not a circle.
C17_Teardown ==
    [][/\ (pending'.changes = 0 /\ ~HasOverlayInputs(app')) =>
             EngineShapes(mapLayers') = <<>>
       /\ (OtherShapes(mapLayers) \ {"fireMarker"})
             \subseteq OtherShapes(mapLayers')
       /\ ("fireMarker" \in OtherShapes(mapLayers) /\ showsFires(app')) =>
             "fireMarker" \in OtherShapes(mapLayers')]_vars

\* The element was unmounted by the last commit because the reading-set
\* became absent, with the tile layer, the marker and the fire markers on
\* the map.
C17_Witness ==
    /\ Settled
    /\ lastCommit.ran = "cleanup"
    /\ app.activeLayer # "aqi"
    /\ app.pollutantData.isNull
    /\ OtherShapes(mapLayers) = {"tileLayer", "marker", "fireMarker"}
    /\ EngineShapes(mapLayers) = <<>>

\* C18: when the generator yields no overlay for the current layer, nothing
\* of that layer is on the map and a notice is shown.
C18_FailureNotice ==
    (/\ Settled
     /\ app.userLocation.set
     /\ app.activeLayer # "aqi"
     /\ OverlayFor(app).returned # "array") =>
        /\ EngineShapes(mapLayers) = <<>>
        /\ showsAvailabilityNotice(app) \/ showsError(app)

\* C19: a commit that renders a burst of two or more state changes leaves on
\* the map exactly the overlay of the last state.
C19_LastWriteWins ==
    (Settled /\ lastCommit.changes >= 2) =>
        EngineShapes(mapLayers) = ExpectedShapes(app)

\* One commit rendered two changes, ran the cleanup and the effect once and
\* drew the overlay of a kind other than the one shown before.
C19_Witness ==
    /\ Settled
    /\ lastCommit.changes = 2
    /\ lastCommit.ran = "cleanup, effect"
    /\ app.activeLayer = "co"
    /\ Len(EngineShapes(mapLayers)) = 14

\* C20: a step in which the generator is called (a commit whose effect
\* runs) leaves the app state and the reading-set as they are, and the
\* circles on the map after it are the shapes of the returned array, added
\* by the effect; the layers of the map change only in a commit.
C20_GeneratorIsPure ==
    [][/\ (callCount' # callCount) =>
             /\ [app' EXCEPT !.fireLoading = app.fireLoading] = app
             /\ callArgs'.pollutantData = app.pollutantData
             /\ result'.returned = "array" =>
                   EngineShapes(mapLayers') = result'.overlays
             /\ result'.returned # "array" =>
                   EngineShapes(mapLayers') = <<>>
       /\ (mapLayers' # mapLayers) =>
             (pending.changes > 0 /\ lastCommit'.changes = pending.changes)]_vars

\* The generator was called a second time, while the overlay of the first
\* call was on the map, and its shapes are the circles on the map.
C20_Witness ==
    /\ callCount = 2
    /\ lastCommit.ran = "cleanup, effect"
    /\ result.returned = "array"
    /\ Len(EngineShapes(mapLayers)) > 2
    /\ EngineShapes(mapLayers) = result.overlays

(***************************************************************************)
(* Properties of the summary kind                                          *)
(***************************************************************************)

\* C21: in every state in which the active layer is 'aqi' the generator
\* has not been called, no PollutantOverlay element is rendered and no
\* circle is on the map.
C21_SummaryKindExcluded ==
    app.activeLayer = "aqi" =>
        /\ callCount = 0
        /\ result = NoResult
        /\ ~rendered.mounted
        /\ EngineShapes(mapLayers) = <<>>

\* The map is rendered with an anchor and a reading-set present while the
\* layer is 'aqi': it holds the tile layer and the marker, and no circle.
C21_Witness ==
    /\ Settled
    /\ app.activeLayer = "aqi"
    /\ app.userLocation.set
    /\ ~app.pollutantData.isNull
    /\ lastCommit.ran = "none"
    /\ OtherShapes(mapLayers) = {"tileLayer", "marker"}
    /\ EngineShapes(mapLayers) = <<>>

(***************************************************************************)
(* Properties of the city search                                           *)
(***************************************************************************)

\* handleCitySearch began a search in the step: it passed the test on the
\* query, set the searching flag and waits for the import.
SearchBegun ==
    Len(imports') > Len(imports)

\* A searchCity call was started by the step.
SearchStarted ==
    Len(searches') > Len(searches)

\* A debounce timer fired in the step (a commit replaces a timer, it never
\* leaves fewer).
TimerFired ==
    Len(debounce'.timers) < Len(debounce.timers)

\* C22: handleCitySearch begins a search only when 500 ms have passed since
\* the input last changed, for the text the input holds, and leaves no timer
\* behind; every searchCity call is for the text of the search begun
\* longest ago that has not called it yet; there is never more than one
\* timer, and once a change is rendered the timer is the one set for the
\* current text.
C22_Debounce ==
    [][/\ SearchBegun =>
             /\ sinceInput >= DebounceMs
             /\ imports'[Len(imports')] = search.searchQuery
             /\ debounce'.timers = <<>>
       /\ SearchStarted =>
             /\ imports # <<>>
             /\ searches'[Len(searches')] = Head(imports)
             /\ imports' = Tail(imports)
       /\ Len(debounce'.timers) <= 1
       /\ pending'.changes = 0 =>
             \A k \in 1..Len(debounce'.timers) :
                debounce'.timers[k].query = search'.searchQuery]_vars

\* A search for the final text is in flight, begun by the timer.
C22_Witness ==
    /\ imports = <<>>
    /\ searches = << <<"r", "o", "m", "e">> >>
    /\ lastSearch = <<"r", "o", "m", "e">>
    /\ search.searchQuery = <<"r", "o", "m", "e">>
    /\ search.searchResults = searchCity(<<"r", "o", "m", "e">>)
    /\ search.showResults
    /\ search.isSearching
    /\ debounce.timers = <<>>
    /\ sinceInput = DebounceMs

\* C23 as stated: a timer that fires for a text shorter than 3 characters,
\* the empty text included, begins no search, leaves the searching flag as
\* it is, and leaves the results emptied and the dropdown hidden.
C23_ShortOrEmptyClears ==
    [][(TimerFired /\ Len(debounce.timers[1].query) < 3) =>
          /\ imports' = imports
          /\ searches' = searches
          /\ search'.isSearching = search.isSearching
          /\ search'.searchResults = <<>>
          /\ ~search'.showResults]_vars

\* C23, amended: a timer that fires for a text shorter than 3 characters
\* begins no search and leaves the searching flag as it is; when the text is
\* not empty the results are emptied and the dropdown is hidden, and when it
\* is empty handleCitySearch is not called and the search state stays as it
\* is.  No search begun or in flight is for a text shorter than 3
\* characters.
C23_MinimumQueryLength ==
    [][/\ (TimerFired /\ Len(debounce.timers[1].query) < 3) =>
             /\ imports' = imports
             /\ searches' = searches
             /\ lastSearch' = lastSearch
             /\ search'.isSearching = search.isSearching
             /\ debounce.timers[1].query # <<>> =>
                   (search'.searchResults = <<>> /\ ~search'.showResults)
             /\ debounce.timers[1].query = <<>> => search' = search
       /\ \A k \in 1..Len(imports') : Len(imports'[k]) >= 3
       /\ \A k \in 1..Len(searches') : Len(searches'[k]) >= 3]_vars

\* The timer fired for a two-character text while results of an earlier
\* search were shown: they are gone and nothing is in flight.
C23_Witness ==
    /\ search.searchQuery = <<"r", "o">>
    /\ debounce.timers = <<>>
    /\ lastSearch = <<"r", "o", "m", "e">>
    /\ search.searchResults = <<>>
    /\ ~search.showResults
    /\ ~search.isSearching
    /\ imports = <<>>
    /\ searches = <<>>

\* C25: a step that starts fetches and answers no position request (here:
\* selecting a search result) sets the location to the coordinates of one of
\* the results shown, starts the air-quality and the pollutant fetch for
\* those coordinates, and clears the query, empties the results and hides
\* the dropdown.
C25_CitySelect ==
    [][(Len(requests') > Len(requests) /\ geolocation' = geolocation) =>
          LET at == requests'[Len(requests')]
          IN  /\ rendered.state.showResults
              /\ \E k \in 1..Len(rendered.state.searchResults) :
                    /\ rendered.state.searchResults[k].lat = at.lat
                    /\ rendered.state.searchResults[k].lon = at.lng
              /\ at.set
              /\ app'.userLocation = at
              /\ requests' = Append(requests, at)
              /\ aqRequests' = Append(aqRequests, at)
              /\ loading'
              /\ search'.searchQuery = <<>>
              /\ search'.searchResults = <<>>
              /\ ~search'.showResults]_vars

\* Rome was selected from the results of the search for "rome", after the
\* position request made on mount was answered.
C25_Witness ==
    /\ geolocation.outstanding = 0
    /\ app.userLocation = LocationAt(<<1125, -875>>)
    /\ lastSearch = <<"r", "o", "m", "e">>
    /\ requests = <<LocationAt(<<1125, -875>>)>>
    /\ aqRequests = <<LocationAt(<<1125, -875>>)>>
    /\ search = InitialSearch

\* The state a selection leaves, before it is rendered: the location is
\* that of a result of the dropdown the last render shows, the query is
\* cleared, the results are emptied and the dropdown is hidden.
AfterSelection ==
    /\ rendered.state.showResults
    /\ app.userLocation # rendered.state.userLocation
    /\ \E k \in 1..Len(rendered.state.searchResults) :
          app.userLocation =
              LocationAt(<<rendered.state.searchResults[k].lat,
                           rendered.state.searchResults[k].lon>>)
    /\ search.searchQuery = <<>>
    /\ search.searchResults = <<>>
    /\ ~search.showResults

\* C29: the results shown are those of the most recently started search, and
\* a search that completes in the state a selection left changes neither the
\* results nor the dropdown.
C29_NoStaleSearch ==
    [][/\ search'.searchResults \in {<<>>, searchCity(lastSearch')}
       /\ (AfterSelection /\ Len(searches') < Len(searches)) =>
             /\ search'.searchResults = <<>>
             /\ ~search'.showResults]_vars

(***************************************************************************)
(* Properties of locating and fetching                                     *)
(***************************************************************************)

\* C24: whenever the interval fires while a location is known, an
\* air-quality fetch and a pollutant fetch are started for that location.
C24_AutoRefresh ==
    [][(refreshTicks' # refreshTicks /\ app.userLocation.set) =>
          /\ aqRequests' = Append(aqRequests, app.userLocation)
          /\ requests' = Append(requests, app.userLocation)]_vars

\* C26: a step that makes the default location the current one (the
\* geolocation error callback) leaves an error message and the two fetches
\* for the default location started; a step that sets the error of a missing
\* geolocation clears the loading flag, sets no location and starts no fetch.
C26_GeolocationFailure ==
    [][/\ (app'.userLocation = defaultCoords
            /\ app.userLocation # defaultCoords) =>
             /\ app'.error = "location"
             /\ aqRequests' = Append(aqRequests, defaultCoords)
             /\ requests' = Append(requests, defaultCoords)
       /\ (app'.error = "unsupported" /\ app.error # "unsupported") =>
             /\ ~loading'
             /\ app'.userLocation = app.userLocation
             /\ aqRequests' = aqRequests
             /\ requests' = requests]_vars

\* C27: whenever the rendered state draws an overlay, the reading-set is
\* the one /api/pollutants answers with for the current location.
C27_ReadingsOfCurrentLocation ==
    (Settled /\ HasOverlayInputs(app)) =>
        app.pollutantData = pollutantsAt(app.userLocation)

\* C28: the loading flag is set while an air-quality fetch is in flight, and
\* when the last one completes the flag is cleared.
C28_LoadingFlag ==
    [][/\ aqRequests' # <<>> => loading'
       /\ (aqRequests # <<>> /\ aqRequests' = <<>>) => ~loading']_vars

(***************************************************************************)
(* Properties of the placement of hotspots                                 *)
(***************************************************************************)

\* The kept call and the latest call have the same anchor and kind.
SameAnchorAndKind ==
    /\ kept # NoCall
    /\ kept.result.returned = "array"
    /\ result.returned = "array"
    /\ kept.args.lat = callArgs.lat
    /\ kept.args.lon = callArgs.lon
    /\ kept.args.activeLayer = callArgs.activeLayer

\* C30: for two calls with the same anchor and kind, values in the same tier
\* give the same hotspot count, and the hotspots both overlays have (the
\* first Min(N1, N2) of each) have the same centres and radii.
C30_PlacementByIndex ==
    SameAnchorAndKind =>
        /\ RangeOfCall(kept.args).tier = RangeOfCall(callArgs).tier =>
              HotspotCount(kept.result) = HotspotCount(result)
        /\ \A k \in 1..Min(HotspotCount(kept.result), HotspotCount(result)) :
              /\ kept.result.overlays[k + 1].latlng
                    = result.overlays[k + 1].latlng
              /\ kept.result.overlays[k + 1].radius
                    = result.overlays[k + 1].radius

\* Two calls with different values of one tier, each with hotspots, whose
\* opacities differ.
C30_Witness ==
    /\ SameAnchorAndKind
    /\ kept.args.pollutantData # callArgs.pollutantData
    /\ RangeOfCall(kept.args).tier = RangeOfCall(callArgs).tier
    /\ HotspotCount(result) >= 3
    /\ kept.result.overlays[2].fillOpacity # result.overlays[2].fillOpacity

====
